---- MODULE Spec2Model ----
(***************************************************************************)
(* A model of src/src/index.ts: the AIInterface task executor, the         *)
(* ParallelThoughtManager (batch execution, session store, summarize and   *)
(* consensus) and the MCP tool handlers that drive them.                   *)
(*                                                                         *)
(* Text is a sequence of tokens, so that template strings are token        *)
(* concatenations and "starts with" is a statement about the first token.  *)
(* An optional value (a TypeScript `x?: T`) is None or Some(x).            *)
(* Node runs one handler at a time up to its next await: an action is one  *)
(* such run, from the event that resumes it to the await that suspends it. *)
(***************************************************************************)
EXTENDS Integers, Sequences, FiniteSets, TLC

VARIABLES
    configs,    \* AIInterface.configs: the providers that have a configuration
    sessions,   \* ParallelThoughtManager.sessions: session id -> object reference
    heap,       \* the ParallelThoughtResult objects, by reference
    calls,      \* the tool calls suspended at an await, by call slot
    reply,      \* what the last step sent back to the MCP client, if anything
    now         \* Date.now()

vars == <<configs, sessions, heap, calls, reply, now>>

----------------------------------------------------------------------------
\* Optional values and small helpers

None == [some |-> FALSE]

Some(x) == [some |-> TRUE, val |-> x]

Range(s) == {s[i] : i \in DOMAIN s}

SeqsUpTo(S, n) == UNION {[1..k -> S] : k \in 0..n}

\* JavaScript truthiness of an optional string
TruthyText(o) == o.some /\ o.val # <<>>

\* JavaScript truthiness of an optional plain string (a model name, a session id)
TruthyString(o) == o.some /\ o.val # ""

----------------------------------------------------------------------------
\* Providers and their configuration (AIInterface.initializeProviders)

Providers == {"openai", "anthropic", "gemini", "deepseek", "ollama"}

\* The order in which initializeProviders inserts into the configs Map
ProviderOrder == <<"openai", "anthropic", "gemini", "deepseek", "ollama">>

DefaultModel(p) ==
    CASE p = "openai"    -> "gpt-4"
      [] p = "anthropic" -> "claude-3-5-sonnet-20241022"
      [] p = "gemini"    -> "gemini-pro"
      [] p = "deepseek"  -> "deepseek-chat"
      [] p = "ollama"    -> "llama3.2"

\* Array.from(this.configs.keys()): the configured providers in insertion order
getAvailableProviders ==
    LET Configured(p) == p \in configs
    IN  SelectSeq(ProviderOrder, Configured)

----------------------------------------------------------------------------
\* Task generation (executeParallelThoughts, the two nested loops)

\* options?.variants || []: no variant at all when none is given
EffectiveVariants_NoDefault(options) ==
    IF options.variants.some THEN options.variants.val ELSE <<>>

\* options?.variants || ['']: an array, even an empty one, is truthy
EffectiveVariants(options) ==
    IF options.variants.some THEN options.variants.val ELSE << <<>> >>

\* `${basePrompt}\n\n${variant}` whatever the variant
VariantPrompt_AlwaysAppends(basePrompt, variant) ==
    basePrompt \o <<"\n\n">> \o variant

\* variant ? `${basePrompt}\n\n${variant}` : basePrompt
VariantPrompt(basePrompt, variant) ==
    IF variant # <<>> THEN basePrompt \o <<"\n\n">> \o variant ELSE basePrompt

\* `${provider}-${i}`, i the 0-based variant index
TaskId(provider, i) == <<provider, "-", ToString(i)>>

\* options?.customModels?.[provider]
CustomModel(options, provider) ==
    IF options.customModels.some /\ provider \in DOMAIN options.customModels.val
    THEN Some(options.customModels.val[provider])
    ELSE None

NewTask(basePrompt, provider, i, variant, options) ==
    [ id          |-> TaskId(provider, i),
      prompt      |-> VariantPrompt(basePrompt, variant),
      provider    |-> provider,
      model       |-> CustomModel(options, provider),
      temperature |-> options.temperature,
      maxTokens   |-> options.maxTokens ]

\* A single loop over the providers, taking the first variant only
GenerateTasks_FirstVariantOnly(basePrompt, providers, options) ==
    LET variants == EffectiveVariants(options)
    IN  [ k \in 1..(IF Len(variants) = 0 THEN 0 ELSE Len(providers)) |->
            NewTask(basePrompt, providers[k], 0, variants[1], options) ]

\* for (provider of providers) for (i = 0; i < variants.length; i++) tasks.push(...)
GenerateTasks(basePrompt, providers, options) ==
    LET variants == EffectiveVariants(options)
        nv == Len(variants)
    IN  [ k \in 1..(Len(providers) * nv) |->
            NewTask(basePrompt,
                    providers[((k - 1) \div nv) + 1],
                    (k - 1) % nv,
                    variants[((k - 1) % nv) + 1],
                    options) ]

----------------------------------------------------------------------------
\* The task executor (AIInterface.executeTask) and the provider call it wraps

\* What callAI can do: resolve with content and optional usage, or throw
CallOk(content, usage) ==
    [ok |-> TRUE, content |-> content, usage |-> usage, message |-> ""]

CallFails(message) ==
    [ok |-> FALSE, content |-> <<>>, usage |-> None, message |-> message]

\* task.model || config.defaultModel || 'unknown'
ResolvedModel(task) ==
    IF TruthyString(task.model) THEN task.model.val
    ELSE IF task.provider \in Providers THEN DefaultModel(task.provider)
    ELSE "unknown"

\* The try branch: the response built from what callAI returned
SuccessResponse(task, outcome, startTime, endTime) ==
    [ taskId    |-> task.id,
      provider  |-> task.provider,
      model     |-> ResolvedModel(task),
      response  |-> outcome.content,
      usage     |-> outcome.usage,
      timestamp |-> endTime,
      duration  |-> endTime - startTime ]

\* A catch branch that returns the bare message
ErrorResponse_BareMessage(task, outcome, startTime, endTime) ==
    [ taskId    |-> task.id,
      provider  |-> task.provider,
      model     |-> ResolvedModel(task),
      response  |-> <<outcome.message>>,
      usage     |-> None,
      timestamp |-> endTime,
      duration  |-> endTime - startTime ]

\* The catch branch: `Error: ${error.message}`, and no usage key at all
ErrorResponse(task, outcome, startTime, endTime) ==
    [ taskId    |-> task.id,
      provider  |-> task.provider,
      model     |-> ResolvedModel(task),
      response  |-> <<"Error: ", outcome.message>>,
      usage     |-> None,
      timestamp |-> endTime,
      duration  |-> endTime - startTime ]

\* What executeTask resolves to once callAI has settled with `outcome`
executeTask(task, outcome, startTime, endTime) ==
    IF outcome.ok THEN SuccessResponse(task, outcome, startTime, endTime)
    ELSE ErrorResponse(task, outcome, startTime, endTime)

\* if (!config) throw new Error(`Provider ${task.provider} is not configured`)
NotConfiguredError(task) == <<"Provider ", task.provider, " is not configured">>

----------------------------------------------------------------------------
\* The session store (ParallelThoughtManager.sessions, a Map of object references)

Idle == [op |-> "idle"]

NoReply == [op |-> "none"]

SynthesisOps == {"summarize-thoughts", "find-consensus"}

\* The references a suspended summarize or consensus call holds in its local `session`
HeldRefs(cs) == {cs[c].session : c \in {d \in DOMAIN cs : cs[d].op \in SynthesisOps}}

\* A reference no live object has: the identity of a newly created object
FreshRef(used) ==
    CHOOSE r \in 1..(Cardinality(used) + 1) :
        r \notin used /\ \A q \in 1..(r - 1) : q \in used

\* Map.set(key, value)
MapSet(m, key, value) ==
    [k \in (DOMAIN m) \cup {key} |-> IF k = key THEN value ELSE m[k]]

\* Objects reachable neither from the Map nor from a suspended call are collected
Collect(h, s, cs) ==
    [r \in {q \in DOMAIN h : q \in Range(s) \/ q \in HeldRefs(cs)} |-> h[r]]

\* A store that keeps the latest session only
SessionsSet_SingleEntry(m, sessionId, ref) == [k \in {sessionId} |-> ref]

\* this.sessions.set(sessionId, result): insert, or replace what the key held
SessionsSet(m, sessionId, ref) == MapSet(m, sessionId, ref)

\* this.sessions.get(sessionId): the object, or undefined
getSession(sessionId) ==
    IF sessionId \in DOMAIN sessions THEN Some(heap[sessions[sessionId]]) ELSE None

\* Array.from(this.sessions.values()), as a set of objects
getAllSessions == {heap[sessions[k]] : k \in DOMAIN sessions}

----------------------------------------------------------------------------
\* executeParallelThoughts: the join and the store

\* Promise.all: the array of results, each at the position of its promise
JoinedResponses(tasks, results) ==
    [i \in 1..Len(tasks) |-> results[i]]

\* A result whose total duration is that of its first member
BatchResult_FirstMemberDuration(sessionId, tasks, responses, startTime, endTime) ==
    [ sessionId     |-> sessionId,
      tasks         |-> tasks,
      responses     |-> responses,
      summary       |-> None,
      consensus     |-> None,
      totalDuration |-> IF Len(responses) > 0 THEN responses[1].duration ELSE 0,
      timestamp     |-> endTime ]

\* A result literal that starts the summary and the consensus as empty texts
BatchResult_EmptyTexts(sessionId, tasks, responses, startTime, endTime) ==
    [ sessionId     |-> sessionId,
      tasks         |-> tasks,
      responses     |-> responses,
      summary       |-> Some(<<>>),
      consensus     |-> Some(<<>>),
      totalDuration |-> endTime - startTime,
      timestamp     |-> endTime ]

\* The ParallelThoughtResult literal: no summary and no consensus key
BatchResult(sessionId, tasks, responses, startTime, endTime) ==
    [ sessionId     |-> sessionId,
      tasks         |-> tasks,
      responses     |-> responses,
      summary       |-> None,
      consensus     |-> None,
      totalDuration |-> endTime - startTime,
      timestamp     |-> endTime ]

\* The text the parallel-ai-think handler returns: JSON.stringify of selected fields
ParallelAiThinkContent(result, prompt, targetProviders) ==
    [ sessionId     |-> result.sessionId,
      prompt        |-> prompt,
      providers     |-> targetProviders,
      responses     |-> [i \in 1..Len(result.responses) |->
                            [ provider |-> result.responses[i].provider,
                              model    |-> result.responses[i].model,
                              response |-> result.responses[i].response,
                              duration |-> result.responses[i].duration,
                              usage    |-> result.responses[i].usage ]],
      totalDuration |-> result.totalDuration,
      timestamp     |-> result.timestamp ]

\* A handler throws: the MCP client gets an error, nothing else changes
Throws(c, op, message) ==
    /\ reply' = [op |-> op, status |-> "error", call |-> c, message |-> message]
    /\ UNCHANGED <<configs, sessions, heap, calls, now>>

\* A store that keeps the session an identifier already has
CompleteBatch_KeepsFirst(c, call) ==
    LET responses == JoinedResponses(call.tasks, call.results)
        result == BatchResult(call.sessionId, call.tasks, responses,
                              call.startTime, now)
        calls1 == [calls EXCEPT ![c] = Idle]
        others == {sessions[k] : k \in (DOMAIN sessions) \ {call.sessionId}}
        ref == FreshRef(others \cup HeldRefs(calls1))
        sessions1 == IF call.sessionId \in DOMAIN sessions THEN sessions
                     ELSE SessionsSet(sessions, call.sessionId, ref)
    IN  /\ calls' = calls1
        /\ sessions' = sessions1
        /\ heap' = IF call.sessionId \in DOMAIN sessions
                   THEN Collect(heap, sessions1, calls1)
                   ELSE Collect(MapSet(heap, ref, result), sessions1, calls1)
        /\ reply' = [ op        |-> "parallel-ai-think",
                      status    |-> "ok",
                      call      |-> c,
                      sessionId |-> call.sessionId,
                      result    |-> result,
                      content   |-> ParallelAiThinkContent(result, call.prompt,
                                                           call.providers) ]
        /\ UNCHANGED <<configs, now>>

\* A store that merges: the lists of a session already under the identifier are
\* kept in front of the new ones
CompleteBatch_Merges(c, call) ==
    LET responses == JoinedResponses(call.tasks, call.results)
        result == BatchResult(call.sessionId, call.tasks, responses,
                              call.startTime, now)
        merged == IF call.sessionId \notin DOMAIN sessions THEN result
                  ELSE LET old == heap[sessions[call.sessionId]]
                       IN  [result EXCEPT !.tasks = old.tasks \o result.tasks,
                                          !.responses = old.responses \o result.responses]
        calls1 == [calls EXCEPT ![c] = Idle]
        others == {sessions[k] : k \in (DOMAIN sessions) \ {call.sessionId}}
        ref == FreshRef(others \cup HeldRefs(calls1))
        sessions1 == SessionsSet(sessions, call.sessionId, ref)
    IN  /\ calls' = calls1
        /\ sessions' = sessions1
        /\ heap' = Collect(MapSet(heap, ref, merged), sessions1, calls1)
        /\ reply' = [ op        |-> "parallel-ai-think",
                      status    |-> "ok",
                      call      |-> c,
                      sessionId |-> call.sessionId,
                      result    |-> result,
                      content   |-> ParallelAiThinkContent(result, call.prompt,
                                                           call.providers) ]
        /\ UNCHANGED <<configs, now>>

\* Lines 364-376 and the handler's return: build the result, store it, reply.
\* `call` is the suspended call with every result in.
CompleteBatch(c, call) ==
    LET responses == JoinedResponses(call.tasks, call.results)
        result == BatchResult(call.sessionId, call.tasks, responses,
                              call.startTime, now)
        calls1 == [calls EXCEPT ![c] = Idle]
        others == {sessions[k] : k \in (DOMAIN sessions) \ {call.sessionId}}
        ref == FreshRef(others \cup HeldRefs(calls1))
        sessions1 == SessionsSet(sessions, call.sessionId, ref)
    IN  /\ calls' = calls1
        /\ sessions' = sessions1
        /\ heap' = Collect(MapSet(heap, ref, result), sessions1, calls1)
        /\ reply' = [ op        |-> "parallel-ai-think",
                      status    |-> "ok",
                      call      |-> c,
                      sessionId |-> call.sessionId,
                      result    |-> result,
                      content   |-> ParallelAiThinkContent(result, call.prompt,
                                                           call.providers) ]
        /\ UNCHANGED <<configs, now>>

\* The suspended batch: the arguments the closure keeps, the tasks, every
\* executeTask dispatched, and Promise.all awaited
SuspendedBatch(sessionId, basePrompt, providers, options, tasks) ==
    [ op        |-> "parallel-ai-think",
      sessionId |-> sessionId,
      prompt    |-> basePrompt,
      providers |-> providers,
      options   |-> options,
      tasks     |-> tasks,
      results   |-> <<>>,
      startTime |-> now ]

\* executeParallelThoughts up to its await, called from the parallel-ai-think
\* handler, whose catch rewraps a rejection. A task for an unconfigured provider
\* rejects at once, and Promise.all rejects with the first rejection.
executeParallelThoughts(c, sessionId, basePrompt, providers, options) ==
    LET tasks == GenerateTasks(basePrompt, providers, options)
        rejected == {i \in 1..Len(tasks) : tasks[i].provider \notin configs}
        first == CHOOSE i \in rejected : \A j \in rejected : i <= j
        call == SuspendedBatch(sessionId, basePrompt, providers, options, tasks)
    IN  IF rejected # {}
        THEN Throws(c, "parallel-ai-think",
                    <<"parallel thinking failed: ">> \o NotConfiguredError(tasks[first]))
        ELSE IF Len(tasks) = 0
        THEN CompleteBatch(c, call)
        ELSE /\ calls' = [calls EXCEPT ![c] = call]
             /\ reply' = NoReply
             /\ UNCHANGED <<configs, sessions, heap, now>>

\* A handler that passes on the providers as the caller named them
ParallelAiThink_Unfiltered(c, prompt, providers, sessionId, generated, options) ==
    /\ calls[c].op = "idle"
    /\ LET availableProviders == getAvailableProviders
           targetProviders ==
               IF providers.some /\ Len(providers.val) > 0
               THEN providers.val
               ELSE availableProviders
           finalSessionId ==
               IF TruthyString(sessionId) THEN sessionId.val ELSE generated
       IN  IF Len(availableProviders) = 0
           THEN Throws(c, "parallel-ai-think", <<"no AI provider is available">>)
           ELSE executeParallelThoughts(c, finalSessionId, prompt,
                                        targetProviders, options)

\* A handler that falls back to every available provider when none of the
\* requested ones is available
ParallelAiThink_FallsBack(c, prompt, providers, sessionId, generated, options) ==
    /\ calls[c].op = "idle"
    /\ LET availableProviders == getAvailableProviders
           Available(p) == p \in Range(availableProviders)
           requested ==
               IF providers.some /\ Len(providers.val) > 0
               THEN SelectSeq(providers.val, Available)
               ELSE availableProviders
           targetProviders ==
               IF Len(requested) > 0 THEN requested ELSE availableProviders
           finalSessionId ==
               IF TruthyString(sessionId) THEN sessionId.val ELSE generated
       IN  IF Len(availableProviders) = 0
           THEN Throws(c, "parallel-ai-think", <<"no AI provider is available">>)
           ELSE executeParallelThoughts(c, finalSessionId, prompt,
                                        targetProviders, options)

\* A handler without the two availability checks of lines 483-495
ParallelAiThink_Unchecked(c, prompt, providers, sessionId, generated, options) ==
    /\ calls[c].op = "idle"
    /\ LET availableProviders == getAvailableProviders
           Available(p) == p \in Range(availableProviders)
           targetProviders ==
               IF providers.some /\ Len(providers.val) > 0
               THEN SelectSeq(providers.val, Available)
               ELSE availableProviders
           finalSessionId ==
               IF TruthyString(sessionId) THEN sessionId.val ELSE generated
       IN  executeParallelThoughts(c, finalSessionId, prompt, targetProviders, options)

\* The parallel-ai-think handler, lines 482-510. `generated` is the identifier the
\* handler makes up from the clock and Math.random when sessionId is falsy.
ParallelAiThink(c, prompt, providers, sessionId, generated, options) ==
    /\ calls[c].op = "idle"
    /\ LET availableProviders == getAvailableProviders
           Available(p) == p \in Range(availableProviders)
           targetProviders ==
               IF providers.some /\ Len(providers.val) > 0
               THEN SelectSeq(providers.val, Available)
               ELSE availableProviders
           finalSessionId ==
               IF TruthyString(sessionId) THEN sessionId.val ELSE generated
       IN  IF Len(availableProviders) = 0
           THEN Throws(c, "parallel-ai-think", <<"no AI provider is available">>)
           ELSE IF Len(targetProviders) = 0
           THEN Throws(c, "parallel-ai-think",
                       <<"the given providers are not available">>)
           ELSE executeParallelThoughts(c, finalSessionId, prompt,
                                        targetProviders, options)

\* responses.push(response): the value goes to the next free position
RecordResult_Push(results, i, response) ==
    MapSet(results, Cardinality(DOMAIN results) + 1, response)

\* The promise of task i resolves: Promise.all keeps its value for position i
RecordResult(results, i, response) == MapSet(results, i, response)

\* Promise.all resolves once every promise has resolved
AllSettled(call) == DOMAIN call.results = 1..Len(call.tasks)

\* The responses that are in, in task order
SettledResponses(results) ==
    LET n == Cardinality(DOMAIN results)
        at == CHOOSE f \in [1..n -> DOMAIN results] :
                  \A a, b \in 1..n : a < b => f[a] < f[b]
    IN  [j \in 1..n |-> results[at[j]]]

\* A batch that runs its tasks one after another: the call of a member is made
\* when the member before it has returned
BatchTaskSettles_OneAtATime(c, i, outcome) ==
    /\ calls[c].op = "parallel-ai-think"
    /\ i \in (1..Len(calls[c].tasks)) \ DOMAIN calls[c].results
    /\ \A j \in 1..(i - 1) : j \in DOMAIN calls[c].results
    /\ LET call == calls[c]
           response == executeTask(call.tasks[i], outcome, call.startTime, now)
           settled == [call EXCEPT !.results = RecordResult(call.results, i, response)]
       IN  IF AllSettled(settled)
           THEN CompleteBatch(c, settled)
           ELSE /\ calls' = [calls EXCEPT ![c] = settled]
                /\ reply' = NoReply
                /\ UNCHANGED <<configs, sessions, heap, now>>

\* A batch with a deadline: when the first member returns, each member still
\* pending is given up and recorded as a failure, and the batch completes
BatchTaskSettles_GivesUp(c, i, outcome) ==
    /\ calls[c].op = "parallel-ai-think"
    /\ i \in (1..Len(calls[c].tasks)) \ DOMAIN calls[c].results
    /\ LET call == calls[c]
           response == executeTask(call.tasks[i], outcome, call.startTime, now)
           GivenUp(j) == executeTask(call.tasks[j], CallFails("timed out"),
                                     call.startTime, now)
           settled == [call EXCEPT !.results =
                          [j \in 1..Len(call.tasks) |->
                              IF j = i THEN response
                              ELSE IF j \in DOMAIN call.results THEN call.results[j]
                              ELSE GivenUp(j)]]
       IN  CompleteBatch(c, settled)

\* A batch that stores its session each time a member settles
BatchTaskSettles_StoresEachTime(c, i, outcome) ==
    /\ calls[c].op = "parallel-ai-think"
    /\ i \in (1..Len(calls[c].tasks)) \ DOMAIN calls[c].results
    /\ LET call == calls[c]
           response == executeTask(call.tasks[i], outcome, call.startTime, now)
           settled == [call EXCEPT !.results = RecordResult(call.results, i, response)]
           partial == BatchResult(call.sessionId, call.tasks,
                                  SettledResponses(settled.results),
                                  call.startTime, now)
           calls1 == [calls EXCEPT ![c] = settled]
           others == {sessions[k] : k \in (DOMAIN sessions) \ {call.sessionId}}
           ref == FreshRef(others \cup HeldRefs(calls1))
           sessions1 == SessionsSet(sessions, call.sessionId, ref)
       IN  IF AllSettled(settled)
           THEN CompleteBatch(c, settled)
           ELSE /\ calls' = calls1
                /\ sessions' = sessions1
                /\ heap' = Collect(MapSet(heap, ref, partial), sessions1, calls1)
                /\ reply' = NoReply
                /\ UNCHANGED <<configs, now>>

\* One provider call of a suspended batch settles: executeTask resolves its
\* promise, and when it was the last one Promise.all resolves and the batch
\* runs to its end.
BatchTaskSettles(c, i, outcome) ==
    /\ calls[c].op = "parallel-ai-think"
    /\ i \in (1..Len(calls[c].tasks)) \ DOMAIN calls[c].results
    /\ LET call == calls[c]
           response == executeTask(call.tasks[i], outcome, call.startTime, now)
           settled == [call EXCEPT !.results = RecordResult(call.results, i, response)]
       IN  IF AllSettled(settled)
           THEN CompleteBatch(c, settled)
           ELSE /\ calls' = [calls EXCEPT ![c] = settled]
                /\ reply' = NoReply
                /\ UNCHANGED <<configs, sessions, heap, now>>

----------------------------------------------------------------------------
\* summarizeResponses and findConsensus

RECURSIVE Join(_, _)
\* Array.prototype.join: the texts with the separator between neighbours
Join(texts, separator) ==
    IF Len(texts) = 0 THEN <<>>
    ELSE IF Len(texts) = 1 THEN texts[1]
    ELSE texts[1] \o separator \o Join(Tail(texts), separator)

\* The same texts, the latest response first
SummaryResponsesText_NewestFirst(responses) ==
    Join([i \in 1..Len(responses) |->
             <<"**", responses[Len(responses) + 1 - i].provider, " (",
               responses[Len(responses) + 1 - i].model, ")**:\n">>
                 \o responses[Len(responses) + 1 - i].response],
         <<"\n\n---\n\n">>)

\* r => `**${r.provider} (${r.model})**:\n${r.response}`, joined by '\n\n---\n\n'
SummaryResponsesText(responses) ==
    Join([i \in 1..Len(responses) |->
             <<"**", responses[i].provider, " (", responses[i].model, ")**:\n">>
                 \o responses[i].response],
         <<"\n\n---\n\n">>)

SummaryPrompt(responses) ==
    <<"[summary instructions]\n\n">> \o SummaryResponsesText(responses)
        \o <<"\n\n[summary format]">>

\* const summaryTask = { id, prompt, provider, temperature: 0.3 }; tenths of a unit
SummaryTask(sessionId, responses, summaryProvider) ==
    [ id          |-> <<"summary-", sessionId>>,
      prompt      |-> SummaryPrompt(responses),
      provider    |-> summaryProvider,
      model       |-> None,
      temperature |-> Some(3),
      maxTokens   |-> None ]

\* r => `**${r.provider}**: ${r.response}`, joined by '\n\n'
ConsensusResponsesText(responses) ==
    Join([i \in 1..Len(responses) |->
             <<"**", responses[i].provider, "**: ">> \o responses[i].response],
         <<"\n\n">>)

ConsensusPrompt(responses) ==
    <<"[consensus instructions]\n\n">> \o ConsensusResponsesText(responses)
        \o <<"\n\n[consensus request]">>

\* const consensusTask = { id, prompt, provider, temperature: 0.1 }
ConsensusTask(sessionId, responses, consensusProvider) ==
    [ id          |-> <<"consensus-", sessionId>>,
      prompt      |-> ConsensusPrompt(responses),
      provider    |-> consensusProvider,
      model       |-> None,
      temperature |-> Some(1),
      maxTokens   |-> None ]

\* throw new Error(`Session ${sessionId} not found`)
SessionNotFound(sessionId) == <<"Session ", sessionId, " not found">>

\* The default value of the summaryProvider and consensusProvider parameters
DefaultSynthesisProvider == "anthropic"

SynthesisProvider(provider) ==
    IF provider.some THEN provider.val ELSE DefaultSynthesisProvider

\* A summarize or consensus call suspended at `await executeTask(task)`; `session`
\* is the object reference the call read from the Map before it built the task
SuspendedSynthesis(op, sessionId, task) ==
    [ op        |-> op,
      sessionId |-> sessionId,
      session   |-> sessions[sessionId],
      tasks     |-> <<task>>,
      results   |-> <<>>,
      startTime |-> now ]

\* A summarizeResponses that records the thrown error in the session's summary
SummarizeSession_RecordsFailure(c, sessionId, summaryProvider) ==
    LET session == heap[sessions[sessionId]]
        summaryTask == SummaryTask(sessionId, session.responses, summaryProvider)
    IN  IF summaryProvider \notin configs
        THEN /\ heap' = [heap EXCEPT ![sessions[sessionId]].summary =
                            Some(<<"Error: ">> \o NotConfiguredError(summaryTask))]
             /\ reply' = [ op |-> "summarize-thoughts", status |-> "error", call |-> c,
                           message |-> <<"summary failed: ">>
                                           \o NotConfiguredError(summaryTask) ]
             /\ UNCHANGED <<configs, sessions, calls, now>>
        ELSE /\ calls' = [calls EXCEPT ![c] =
                   SuspendedSynthesis("summarize-thoughts", sessionId, summaryTask)]
             /\ reply' = NoReply
             /\ UNCHANGED <<configs, sessions, heap, now>>

\* summarizeResponses from line 385 to its await, for a session that exists
SummarizeSession(c, sessionId, summaryProvider) ==
    LET session == heap[sessions[sessionId]]
        summaryTask == SummaryTask(sessionId, session.responses, summaryProvider)
    IN  IF summaryProvider \notin configs
        THEN Throws(c, "summarize-thoughts",
                    <<"summary failed: ">> \o NotConfiguredError(summaryTask))
        ELSE /\ calls' = [calls EXCEPT ![c] =
                   SuspendedSynthesis("summarize-thoughts", sessionId, summaryTask)]
             /\ reply' = NoReply
             /\ UNCHANGED <<configs, sessions, heap, now>>

\* A lookup that puts an empty session under an identifier it does not find
summarizeResponses_CreatesSession(c, sessionId, summaryProvider) ==
    IF sessionId \notin DOMAIN sessions
    THEN LET ref == FreshRef({sessions[k] : k \in DOMAIN sessions} \cup HeldRefs(calls))
         IN  /\ sessions' = SessionsSet(sessions, sessionId, ref)
             /\ heap' = MapSet(heap, ref, BatchResult(sessionId, <<>>, <<>>, now, now))
             /\ reply' = [ op |-> "summarize-thoughts", status |-> "error", call |-> c,
                           message |-> <<"summary failed: ">>
                                           \o SessionNotFound(sessionId) ]
             /\ UNCHANGED <<configs, calls, now>>
    ELSE SummarizeSession(c, sessionId, summaryProvider)

\* summarizeResponses up to its await, called from the summarize-thoughts handler
summarizeResponses(c, sessionId, summaryProvider) ==
    IF sessionId \notin DOMAIN sessions
    THEN Throws(c, "summarize-thoughts",
                <<"summary failed: ">> \o SessionNotFound(sessionId))
    ELSE SummarizeSession(c, sessionId, summaryProvider)

\* findConsensus up to its await, called from the find-consensus handler
findConsensus(c, sessionId, consensusProvider) ==
    IF sessionId \notin DOMAIN sessions
    THEN Throws(c, "find-consensus",
                <<"consensus failed: ">> \o SessionNotFound(sessionId))
    ELSE LET session == heap[sessions[sessionId]]
             consensusTask == ConsensusTask(sessionId, session.responses,
                                            consensusProvider)
         IN  IF consensusProvider \notin configs
             THEN Throws(c, "find-consensus",
                         <<"consensus failed: ">> \o NotConfiguredError(consensusTask))
             ELSE /\ calls' = [calls EXCEPT ![c] =
                        SuspendedSynthesis("find-consensus", sessionId, consensusTask)]
                  /\ reply' = NoReply
                  /\ UNCHANGED <<configs, sessions, heap, now>>

\* The summarize-thoughts handler, lines 550-552
SummarizeThoughts(c, sessionId, summaryProvider) ==
    /\ calls[c].op = "idle"
    /\ summarizeResponses(c, sessionId, SynthesisProvider(summaryProvider))

\* The find-consensus handler, lines 585-587
FindConsensus(c, sessionId, consensusProvider) ==
    /\ calls[c].op = "idle"
    /\ findConsensus(c, sessionId, SynthesisProvider(consensusProvider))

\* session?.responses.length || 0, on the object the Map holds when the handler resumes
OriginalResponses(h, sessionId) ==
    IF sessionId \in DOMAIN sessions THEN Len(h[sessions[sessionId]].responses) ELSE 0

\* A write that keeps the earlier summary in front of the new text
WriteSummary_KeepsHistory(h, ref, text) ==
    [h EXCEPT ![ref].summary = Some(IF @.some THEN @.val \o text ELSE text)]

\* A write that puts back a copy of the session made without its consensus
WriteSummary_DropsConsensus(h, ref, text) ==
    [h EXCEPT ![ref].summary = Some(text), ![ref].consensus = None]

\* session.summary = summaryResponse.response, on the object the call holds
WriteSummary(h, ref, text) == [h EXCEPT ![ref].summary = Some(text)]

\* A write of the consensus that rebuilds the session without its summary
WriteConsensus_DropsSummary(h, ref, text) ==
    [h EXCEPT ![ref].consensus = Some(text), ![ref].summary = None]

\* session.consensus = consensusResponse.response, on the object the call holds
WriteConsensus(h, ref, text) == [h EXCEPT ![ref].consensus = Some(text)]

\* The synthesis call of a suspended summarizeResponses settles: lines 405-408,
\* then the handler's lines 553-567
SummarySettles(c, outcome) ==
    /\ calls[c].op = "summarize-thoughts"
    /\ LET call == calls[c]
           summaryResponse == executeTask(call.tasks[1], outcome, call.startTime, now)
           heap1 == WriteSummary(heap, call.session, summaryResponse.response)
           calls1 == [calls EXCEPT ![c] = Idle]
       IN  /\ calls' = calls1
           /\ heap' = Collect(heap1, sessions, calls1)
           /\ reply' = [ op        |-> "summarize-thoughts",
                         status    |-> "ok",
                         call      |-> c,
                         sessionId |-> call.sessionId,
                         returned  |-> summaryResponse.response,
                         content   |->
                             [ sessionId         |-> call.sessionId,
                               summary           |-> summaryResponse.response,
                               originalResponses |->
                                   OriginalResponses(heap1, call.sessionId) ] ]
           /\ UNCHANGED <<configs, sessions, now>>

\* The synthesis call of a suspended findConsensus settles: lines 434-437, then
\* the handler's lines 588-602
ConsensusSettles(c, outcome) ==
    /\ calls[c].op = "find-consensus"
    /\ LET call == calls[c]
           consensusResponse == executeTask(call.tasks[1], outcome, call.startTime, now)
           heap1 == WriteConsensus(heap, call.session, consensusResponse.response)
           calls1 == [calls EXCEPT ![c] = Idle]
       IN  /\ calls' = calls1
           /\ heap' = Collect(heap1, sessions, calls1)
           /\ reply' = [ op        |-> "find-consensus",
                         status    |-> "ok",
                         call      |-> c,
                         sessionId |-> call.sessionId,
                         returned  |-> consensusResponse.response,
                         content   |->
                             [ sessionId         |-> call.sessionId,
                               consensus         |-> consensusResponse.response,
                               originalResponses |->
                                   OriginalResponses(heap1, call.sessionId) ] ]
           /\ UNCHANGED <<configs, sessions, now>>

----------------------------------------------------------------------------
\* get-session-info

TaskOptionalKeys == {"model", "temperature", "maxTokens"}

ResponseOptionalKeys == {"usage"}

SessionOptionalKeys == {"summary", "consensus"}

\* A serialiser that leaves every optional key out
JsonObject_NoOptionalKeys(object, optionalKeys) ==
    [k \in (DOMAIN object) \ optionalKeys |-> object[k]]

\* JSON.stringify of an object: a key whose value is undefined is left out
JsonObject(object, optionalKeys) ==
    [k \in {j \in DOMAIN object : j \notin optionalKeys \/ object[j].some} |->
        IF k \in optionalKeys THEN object[k].val ELSE object[k]]

\* JSON.stringify(session, null, 2)
SessionJson(session) ==
    JsonObject(
        [session EXCEPT
            !.tasks = [i \in 1..Len(session.tasks) |->
                          JsonObject(session.tasks[i], TaskOptionalKeys)],
            !.responses = [i \in 1..Len(session.responses) |->
                              JsonObject(session.responses[i], ResponseOptionalKeys)]],
        SessionOptionalKeys)

\* The get-session-info handler, lines 619-635
GetSessionInfo(sessionId) ==
    LET session == getSession(sessionId)
    IN  /\ reply' = IF ~session.some
                    THEN [ op        |-> "get-session-info",
                           status    |-> "error",
                           sessionId |-> sessionId,
                           message   |-> <<"no session ", sessionId>> ]
                    ELSE [ op        |-> "get-session-info",
                           status    |-> "ok",
                           sessionId |-> sessionId,
                           content   |-> SessionJson(session.val) ]
        /\ UNCHANGED <<configs, sessions, heap, calls, now>>

----------------------------------------------------------------------------
\* Inputs

\* The slots of the tool calls in progress. One slot: the calls of a behaviour
\* follow one another, each running to its reply before the next arrives
CallIds == {1}

SessionIds == {"s1", "s2"}

\* The providers the environment may configure and a caller may name
UsedProviders == {"openai", "anthropic"}

Prompts == {<<"question">>}

VariantTexts == {<<>>, <<"angle">>}

SessionIdInputs == {None} \cup {Some(s) : s \in SessionIds}

SynthesisProviderInputs == {None} \cup {Some(p) : p \in UsedProviders}

\* A call that passes no temperature, token budget or model
DefaultOptions(variants) ==
    [variants |-> variants, temperature |-> None, maxTokens |-> None,
     customModels |-> None]

\* A call that passes all three: temperature 0, 100 tokens, a model for openai
CustomOptions(variants) ==
    [variants |-> variants, temperature |-> Some(0), maxTokens |-> Some(100),
     customModels |-> Some([openai |-> "gpt-4o"])]

Usage == [promptTokens |-> 1, completionTokens |-> 1, totalTokens |-> 2]

\* What a provider call can come to: an answer with usage; a body the adapter
\* reads no text from (`|| ''`) and no usage; or a throw (network fault, non-OK
\* status, a body that cannot be parsed or indexed)
Outcomes ==
    { CallOk(<<"answer">>, Some(Usage)),
      CallOk(<<>>, None),
      CallFails("fetch failed") }

\* The provider lists a caller of the store-level specification passes
ProviderInputs == {None, Some(<<"openai">>)}

\* The outcomes of the store-level specification: of a batch member, of the
\* summary call and of the consensus call
StoreOutcomes == {CallOk(<<"answer">>, Some(Usage)), CallFails("fetch failed")}

SummaryOutcomes == {CallOk(<<"the summary">>, Some(Usage)), CallFails("fetch failed")}

ConsensusOutcomes == {CallOk(<<"the consensus">>, Some(Usage))}

----------------------------------------------------------------------------
\* The specification: tool calls one after another, over two session identifiers

Init ==
    /\ configs \in SUBSET UsedProviders
    /\ sessions = <<>>
    /\ heap = <<>>
    /\ calls = [c \in CallIds |-> Idle]
    /\ reply = NoReply
    /\ now = 0

Next ==
    \/ \E c \in CallIds :
            /\ calls[c].op = "idle"
            /\ \E prompt \in Prompts, providers \in ProviderInputs,
                  sessionId \in SessionIdInputs :
                    \E generated \in IF sessionId.some THEN {sessionId.val}
                                                       ELSE SessionIds :
                        ParallelAiThink(c, prompt, providers, sessionId, generated,
                                        DefaultOptions(None))
    \/ \E c \in CallIds, i \in 1..Cardinality(UsedProviders), outcome \in StoreOutcomes :
            BatchTaskSettles(c, i, outcome)
    \/ \E c \in CallIds, sessionId \in SessionIds, provider \in SynthesisProviderInputs :
            SummarizeThoughts(c, sessionId, provider)
    \/ \E c \in CallIds, sessionId \in SessionIds, provider \in SynthesisProviderInputs :
            FindConsensus(c, sessionId, provider)
    \/ \E c \in CallIds, outcome \in SummaryOutcomes : SummarySettles(c, outcome)
    \/ \E c \in CallIds, outcome \in ConsensusOutcomes : ConsensusSettles(c, outcome)

Spec == Init /\ [][Next]_vars

----------------------------------------------------------------------------
\* The batch specification: one parallel-ai-think call on the empty store, with
\* every provider or none configured, every provider list and variant list
\* whose product is within MaxTasks, and the member calls settling in every
\* order; the client then reads the session

MaxTasks == 4

BatchProviderInputs ==
    {None} \cup {Some(l) : l \in SeqsUpTo(UsedProviders, MaxTasks)}

BatchVariantInputs ==
    {None} \cup {Some(l) : l \in SeqsUpTo(VariantTexts, MaxTasks)}

\* The identifier a caller passes: a batch that runs is the same under any
\* identifier, so it is varied for the calls that are refused
BatchSessionIdInputs ==
    IF configs = {} THEN SessionIdInputs ELSE {Some("s1")}

\* The number of tasks a request asks for
RequestedTasks(providers, variants) ==
    (IF providers.some /\ Len(providers.val) > 0
     THEN Len(providers.val) ELSE Cardinality(UsedProviders))
    * (IF variants.some THEN Len(variants.val) ELSE 1)

InitBatch ==
    /\ configs \in {{}, UsedProviders}
    /\ sessions = <<>>
    /\ heap = <<>>
    /\ calls = [c \in CallIds |-> Idle]
    /\ reply = NoReply
    /\ now = 0

NextBatch ==
    \/ \E c \in CallIds :
            /\ calls[c].op = "idle"
            /\ DOMAIN sessions = {}
            /\ \E prompt \in Prompts, providers \in BatchProviderInputs,
                  variants \in BatchVariantInputs :
                    /\ RequestedTasks(providers, variants) <= MaxTasks
                    /\ \E options \in {DefaultOptions(variants), CustomOptions(variants)},
                          sessionId \in BatchSessionIdInputs :
                           \E generated \in IF sessionId.some THEN {sessionId.val}
                                                              ELSE SessionIds :
                               ParallelAiThink(c, prompt, providers, sessionId,
                                               generated, options)
    \/ \E c \in CallIds, i \in 1..MaxTasks, outcome \in Outcomes :
            BatchTaskSettles(c, i, outcome)
    \/ \E sessionId \in SessionIds :
            /\ reply.op = "parallel-ai-think"
            /\ GetSessionInfo(sessionId)

SpecBatch == InitBatch /\ [][NextBatch]_vars

----------------------------------------------------------------------------
\* Properties of one batch (SpecBatch)

\* The responses of call c after a step: in the reply when the step completed
\* the batch, in the suspended call otherwise
ResponsesAfter(c) ==
    IF calls'[c].op = "idle" THEN reply'.result.responses ELSE calls'[c].results

IsErrorResponse(r) ==
    Len(r.response) > 0 /\ Head(r.response) = "Error: " /\ ~r.usage.some

\* C1: when the provider call of task i fails, the step still records one
\* response at position i, with the task's id, a text that starts with "Error: "
\* and no usage; nothing is thrown, the responses already in are untouched, and
\* a batch that completes has as many responses as tasks.
C1_FailureIsAResponse ==
    [][\A c \in CallIds :
        calls[c].op = "parallel-ai-think" =>
            \A i \in 1..Len(calls[c].tasks), outcome \in Outcomes :
                (~outcome.ok /\ BatchTaskSettles(c, i, outcome)) =>
                    /\ i \notin DOMAIN calls[c].results
                    /\ i \in DOMAIN ResponsesAfter(c)
                    /\ ResponsesAfter(c)[i].taskId = calls[c].tasks[i].id
                    /\ IsErrorResponse(ResponsesAfter(c)[i])
                    /\ reply'.op = "none" \/ reply'.status = "ok"
                    /\ \A j \in DOMAIN calls[c].results :
                           ResponsesAfter(c)[j] = calls[c].results[j]
                    /\ calls'[c].op = "idle" =>
                           /\ reply'.op = "parallel-ai-think"
                           /\ Len(reply'.result.responses) = Len(calls[c].tasks)
                           /\ reply'.result.tasks = calls[c].tasks]_vars

\* A completed batch of several tasks in which one member failed and another answered
C1_Witness ==
    /\ reply.op = "parallel-ai-think"
    /\ reply.status = "ok"
    /\ Len(reply.result.responses) = Len(reply.result.tasks)
    /\ \E i, j \in 1..Len(reply.result.responses) :
           /\ IsErrorResponse(reply.result.responses[i])
           /\ reply.result.responses[i].taskId = reply.result.tasks[i].id
           /\ reply.result.responses[j].response = <<"answer">>
           /\ reply.result.responses[j].usage.some

\* The session object the Map holds under sessionId
Stored(sessionId) == heap[sessions[sessionId]]

\* The same after a step
StoredAfter(sessionId) == heap'[sessions'[sessionId]]

\* The inputs of a parallel-ai-think call of the batch specification
BatchRequests ==
    { r \in [providers : BatchProviderInputs, variants : BatchVariantInputs] :
        RequestedTasks(r.providers, r.variants) <= MaxTasks }

\* C2: a call with non-empty providers and variants lists generates
\* |providers| x |variants| tasks; the task list stays as generated while the
\* batch is suspended; and the completed call returns, and stores, that task
\* list with exactly as many responses.
C2_ProductOfProvidersAndVariants ==
    [][\A c \in CallIds :
        /\ (calls[c].op = "idle" /\ calls'[c].op # "idle") =>
               \A prompt \in Prompts, r \in BatchRequests, sessionId \in SessionIdInputs,
                  generated \in SessionIds,
                  options \in {DefaultOptions(calls'[c].options.variants),
                               CustomOptions(calls'[c].options.variants)} :
                   ( /\ r.variants = options.variants
                     /\ r.providers.some /\ Len(r.providers.val) > 0
                     /\ r.variants.some /\ Len(r.variants.val) > 0
                     /\ ParallelAiThink(c, prompt, r.providers, sessionId,
                                        generated, options) ) =>
                       /\ calls'[c].op = "parallel-ai-think"
                       /\ calls'[c].providers = r.providers.val
                       /\ Len(calls'[c].tasks) =
                              Len(r.providers.val) * Len(r.variants.val)
        /\ (calls[c].op = "parallel-ai-think" /\ calls'[c].op = "parallel-ai-think") =>
               calls'[c].tasks = calls[c].tasks
        /\ (calls[c].op = "parallel-ai-think" /\ calls'[c].op = "idle") =>
               /\ reply'.op = "parallel-ai-think" /\ reply'.status = "ok"
               /\ reply'.result.tasks = calls[c].tasks
               /\ Len(reply'.result.responses) = Len(calls[c].tasks)
               /\ calls[c].sessionId \in DOMAIN sessions'
               /\ StoredAfter(calls[c].sessionId).tasks = calls[c].tasks
               /\ Len(StoredAfter(calls[c].sessionId).responses) = Len(calls[c].tasks)]_vars

\* A completed call over two providers and two variants: four tasks, four responses
C2_Witness ==
    /\ reply.op = "parallel-ai-think"
    /\ reply.status = "ok"
    /\ Len(reply.content.providers) = 2
    /\ Len(reply.result.tasks) = 4
    /\ Len(reply.result.responses) = 4
    /\ reply.sessionId \in DOMAIN sessions
    /\ Len(Stored(reply.sessionId).tasks) = 4
    /\ Len(Stored(reply.sessionId).responses) = 4

MatchesTask(response, task) ==
    response.taskId = task.id /\ response.provider = task.provider

\* C3: whatever the order in which the provider calls settle, the response at
\* position i is the one task i produced: while the batch is suspended, in the
\* result returned, and in the session stored.
C3_PositionalMatch ==
    /\ \A c \in CallIds :
           calls[c].op = "parallel-ai-think" =>
               \A i \in DOMAIN calls[c].results :
                   /\ i \in 1..Len(calls[c].tasks)
                   /\ MatchesTask(calls[c].results[i], calls[c].tasks[i])
    /\ (reply.op = "parallel-ai-think" /\ reply.status = "ok") =>
           /\ DOMAIN reply.result.responses = DOMAIN reply.result.tasks
           /\ \A i \in DOMAIN reply.result.tasks :
                  MatchesTask(reply.result.responses[i], reply.result.tasks[i])
    /\ \A k \in DOMAIN sessions :
           /\ DOMAIN Stored(k).responses = DOMAIN Stored(k).tasks
           /\ \A i \in DOMAIN Stored(k).tasks :
                  MatchesTask(Stored(k).responses[i], Stored(k).tasks[i])

\* The second task of a batch has settled while the first is still pending
C3_Witness ==
    \E c \in CallIds :
        /\ calls[c].op = "parallel-ai-think"
        /\ Len(calls[c].tasks) >= 2
        /\ calls[c].tasks[1].provider # calls[c].tasks[2].provider
        /\ 2 \in DOMAIN calls[c].results
        /\ 1 \notin DOMAIN calls[c].results
        /\ MatchesTask(calls[c].results[2], calls[c].tasks[2])

\* The tasks of call c after a step: in the reply when the step completed the
\* batch, in the suspended call otherwise
TasksAfter(c) ==
    IF calls'[c].op = "idle" THEN reply'.result.tasks ELSE calls'[c].tasks

\* C10: executeParallelThoughts called without variants generates one task per
\* entry of the providers list it is given, in that order, each with the base
\* prompt as its prompt.
C10_NoVariantsOneTaskPerProvider ==
    [][\A c \in CallIds :
        (calls[c].op = "idle" /\ reply'.op # "get-session-info") =>
            \A prompt \in Prompts, providers \in SeqsUpTo(UsedProviders, MaxTasks),
               sessionId \in SessionIds,
               options \in {DefaultOptions(None), CustomOptions(None)} :
                executeParallelThoughts(c, sessionId, prompt, providers, options) =>
                    /\ calls'[c].op = "idle" =>
                           reply'.op = "parallel-ai-think" /\ reply'.status = "ok"
                    /\ Len(TasksAfter(c)) = Len(providers)
                    /\ \A i \in 1..Len(providers) :
                           /\ TasksAfter(c)[i].provider = providers[i]
                           /\ TasksAfter(c)[i].prompt = prompt]_vars

\* A suspended call that passed no variants: two providers, two tasks, the base prompt
C10_Witness ==
    \E c \in CallIds :
        /\ calls[c].op = "parallel-ai-think"
        /\ ~calls[c].options.variants.some
        /\ Len(calls[c].providers) = 2
        /\ Len(calls[c].tasks) = 2
        /\ \A i \in 1..2 : calls[c].tasks[i].prompt = calls[c].prompt

\* C8: with no provider configured, a parallel-ai-think call, whatever its
\* providers, session identifier, variants and options, replies with an error,
\* suspends no call (so dispatches no task) and leaves the store as it was;
\* the store stays empty.
C8_NoProviderNoSession ==
    [][configs = {} =>
        /\ DOMAIN sessions' = {}
        /\ \A c \in CallIds :
               (\E prompt \in Prompts, r \in BatchRequests,
                   sessionId \in SessionIdInputs, generated \in SessionIds :
                    \E options \in {DefaultOptions(r.variants),
                                    CustomOptions(r.variants)} :
                        ParallelAiThink(c, prompt, r.providers, sessionId,
                                        generated, options)) =>
                   /\ reply'.op = "parallel-ai-think"
                   /\ reply'.status = "error"
                   /\ calls' = calls
                   /\ calls'[c].op = "idle"
                   /\ sessions' = sessions
                   /\ heap' = heap]_vars

\* A parallel-ai-think call has failed for want of a provider; nothing is stored
C8_Witness ==
    /\ configs = {}
    /\ reply.op = "parallel-ai-think"
    /\ reply.status = "error"
    /\ reply.message = <<"no AI provider is available">>
    /\ DOMAIN sessions = {}
    /\ \A c \in CallIds : calls[c].op = "idle"

\* Every key of the object is in the JSON text with its value, an optional key
\* exactly when it is defined, and the text has no other key
FieldsPreserved(json, object, optionalKeys) ==
    /\ DOMAIN json \subseteq DOMAIN object
    /\ \A k \in DOMAIN object :
           IF k \in optionalKeys
           THEN /\ (k \in DOMAIN json) <=> object[k].some
                /\ object[k].some => json[k] = object[k].val
           ELSE k \in DOMAIN json /\ json[k] = object[k]

\* C9: get-session-info called right after a parallel-ai-think call completed,
\* for the identifier of that call, finds the session, and the text it returns
\* has the tasks and the responses the call returned, in the same order, every
\* field of every one with its value.
C9_RoundTrip ==
    [][( /\ reply.op = "parallel-ai-think" /\ reply.status = "ok"
         /\ reply'.op = "get-session-info"
         /\ reply'.sessionId = reply.sessionId ) =>
            /\ reply'.status = "ok"
            /\ Len(reply'.content.tasks) = Len(reply.result.tasks)
            /\ \A i \in 1..Len(reply.result.tasks) :
                   FieldsPreserved(reply'.content.tasks[i], reply.result.tasks[i],
                                   TaskOptionalKeys)
            /\ Len(reply'.content.responses) = Len(reply.result.responses)
            /\ \A i \in 1..Len(reply.result.responses) :
                   FieldsPreserved(reply'.content.responses[i],
                                   reply.result.responses[i], ResponseOptionalKeys)]_vars

\* The session of a batch has been read back: several tasks with their optional
\* fields set, one response with usage and one without
C9_Witness ==
    /\ reply.op = "get-session-info"
    /\ reply.status = "ok"
    /\ Len(reply.content.tasks) >= 2
    /\ Len(reply.content.responses) = Len(reply.content.tasks)
    /\ \A i \in 1..Len(reply.content.tasks) :
           {"temperature", "maxTokens"} \subseteq DOMAIN reply.content.tasks[i]
    /\ \E i \in 1..Len(reply.content.tasks) : "model" \in DOMAIN reply.content.tasks[i]
    /\ \E i, j \in 1..Len(reply.content.responses) :
           /\ "usage" \in DOMAIN reply.content.responses[i]
           /\ "usage" \notin DOMAIN reply.content.responses[j]

----------------------------------------------------------------------------
\* Properties of the session store (Spec)

\* One response for each task, none missing
FullyPopulated(session) ==
    /\ DOMAIN session.responses = 1..Len(session.tasks)
    /\ \A i \in 1..Len(session.tasks) :
           MatchesTask(session.responses[i], session.tasks[i])

\* What getSession and getAllSessions show of the batches: the keys, and the
\* task and response lists under each
\* (summary and consensus are written by other operations)
Exposed(m, h) ==
    [k \in DOMAIN m |-> [tasks |-> h[m[k]].tasks, responses |-> h[m[k]].responses]]

\* C4: every stored session has one response for each of its tasks. A step
\* that leaves a batch suspended changes nothing getSession or getAllSessions
\* shows; what they show changes only in the step in which the last pending
\* member of a batch settles, only under that batch's identifier, and to the
\* complete session the call returns.
C4_WrittenOnceFullyPopulated ==
    [][/\ \A k \in DOMAIN sessions' : FullyPopulated(StoredAfter(k))
       /\ \A c \in CallIds :
              calls'[c].op = "parallel-ai-think" =>
                  Exposed(sessions', heap') = Exposed(sessions, heap)
       /\ Exposed(sessions', heap') # Exposed(sessions, heap) =>
              \E c \in CallIds :
                  /\ calls[c].op = "parallel-ai-think"
                  /\ calls'[c].op = "idle"
                  /\ Cardinality(DOMAIN calls[c].results) = Len(calls[c].tasks) - 1
                  /\ reply'.op = "parallel-ai-think" /\ reply'.status = "ok"
                  /\ StoredAfter(calls[c].sessionId) = reply'.result
                  /\ Len(reply'.result.responses) = Len(calls[c].tasks)
                  /\ \A k \in DOMAIN sessions' :
                         k # calls[c].sessionId =>
                             /\ k \in DOMAIN sessions
                             /\ Exposed(sessions', heap')[k] = Exposed(sessions, heap)[k]]_vars

\* A batch of two tasks is in flight with one response in, and the store does
\* not show it: its identifier is absent or holds the session of an earlier batch
C4_Witness ==
    \E c \in CallIds :
        /\ calls[c].op = "parallel-ai-think"
        /\ Len(calls[c].tasks) = 2
        /\ Cardinality(DOMAIN calls[c].results) = 1
        /\ DOMAIN sessions = SessionIds \ {calls[c].sessionId}
        /\ \A k \in DOMAIN sessions : FullyPopulated(Stored(k))

\* C5: when a batch completes for an identifier the store already holds, the
\* session stored under it afterwards is the one the call returns: the tasks of
\* this call, one response for each, no summary and no consensus; the sessions
\* under the other identifiers are as they were.
C5_LastWriteWins ==
    [][\A c \in CallIds :
        ( /\ calls[c].op = "parallel-ai-think"
          /\ calls'[c].op = "idle"
          /\ calls[c].sessionId \in DOMAIN sessions ) =>
            /\ reply'.op = "parallel-ai-think" /\ reply'.status = "ok"
            /\ StoredAfter(calls[c].sessionId) = reply'.result
            /\ StoredAfter(calls[c].sessionId).tasks = calls[c].tasks
            /\ Len(StoredAfter(calls[c].sessionId).responses) = Len(calls[c].tasks)
            /\ \A i \in 1..Len(calls[c].tasks) :
                   MatchesTask(StoredAfter(calls[c].sessionId).responses[i],
                               calls[c].tasks[i])
            /\ ~StoredAfter(calls[c].sessionId).summary.some
            /\ ~StoredAfter(calls[c].sessionId).consensus.some
            /\ DOMAIN sessions' = DOMAIN sessions
            /\ \A k \in (DOMAIN sessions) \ {calls[c].sessionId} :
                   StoredAfter(k) = Stored(k)]_vars

\* The second call for an identifier is about to complete: the store holds a
\* summarized session of two tasks under it, and the batch in flight has one
\* task, still pending
C5_Witness ==
    \E c \in CallIds :
        /\ calls[c].op = "parallel-ai-think"
        /\ Len(calls[c].tasks) = 1
        /\ calls[c].sessionId \in DOMAIN sessions
        /\ Len(Stored(calls[c].sessionId).tasks) = 2
        /\ Stored(calls[c].sessionId).summary.some

\* C6: summarize-thoughts and find-consensus for an identifier the store does
\* not hold reply with the not-found error, suspend no call (so dispatch no
\* task), and leave the keys of the store and every stored session as they were.
C6_UnknownSessionNotFound ==
    [][\A c \in CallIds, sessionId \in SessionIds, provider \in SynthesisProviderInputs :
        sessionId \notin DOMAIN sessions =>
            /\ SummarizeThoughts(c, sessionId, provider) =>
                   /\ reply'.op = "summarize-thoughts"
                   /\ reply'.status = "error"
                   /\ reply'.message = <<"summary failed: ">> \o SessionNotFound(sessionId)
                   /\ calls' = calls
                   /\ sessions' = sessions
                   /\ heap' = heap
            /\ FindConsensus(c, sessionId, provider) =>
                   /\ reply'.op = "find-consensus"
                   /\ reply'.status = "error"
                   /\ reply'.message = <<"consensus failed: ">> \o SessionNotFound(sessionId)
                   /\ calls' = calls
                   /\ sessions' = sessions
                   /\ heap' = heap]_vars

\* summarize-thoughts has failed for an identifier the store does not hold,
\* while it holds a session under another
C6_Witness ==
    /\ reply.op = "summarize-thoughts"
    /\ reply.status = "error"
    /\ DOMAIN sessions # {}
    /\ \E sessionId \in SessionIds \ DOMAIN sessions :
           reply.message = <<"summary failed: ">> \o SessionNotFound(sessionId)
    /\ \A c \in CallIds : calls[c].op = "idle"

\* C7: the step in which a summary is written leaves the tasks, the responses
\* and the consensus of the session as they were and sets its summary to the
\* text returned; the step in which a consensus is written leaves the tasks,
\* the responses and the summary as they were and sets its consensus to the
\* text returned. The store keeps its keys.
C7_SummaryAndConsensusIndependent ==
    [][\A c \in CallIds :
        /\ (calls[c].op = "summarize-thoughts" /\ calls'[c].op = "idle") =>
               LET before == heap[calls[c].session]
                   after == heap'[calls[c].session]
               IN  /\ reply'.op = "summarize-thoughts" /\ reply'.status = "ok"
                   /\ sessions' = sessions
                   /\ sessions[calls[c].sessionId] = calls[c].session
                   /\ after.tasks = before.tasks
                   /\ after.responses = before.responses
                   /\ after.consensus = before.consensus
                   /\ after.summary.some
                   /\ after.summary.val = reply'.returned
        /\ (calls[c].op = "find-consensus" /\ calls'[c].op = "idle") =>
               LET before == heap[calls[c].session]
                   after == heap'[calls[c].session]
               IN  /\ reply'.op = "find-consensus" /\ reply'.status = "ok"
                   /\ sessions' = sessions
                   /\ sessions[calls[c].sessionId] = calls[c].session
                   /\ after.tasks = before.tasks
                   /\ after.responses = before.responses
                   /\ after.summary = before.summary
                   /\ after.consensus.some
                   /\ after.consensus.val = reply'.returned]_vars

\* find-consensus has replied for a session that had been summarized: the
\* session holds both texts, and its two tasks and two responses
C7_Witness ==
    /\ reply.op = "find-consensus"
    /\ reply.status = "ok"
    /\ reply.sessionId \in DOMAIN sessions
    /\ Stored(reply.sessionId).summary.some
    /\ Stored(reply.sessionId).summary.val = <<"the summary">>
    /\ Stored(reply.sessionId).consensus.some
    /\ Stored(reply.sessionId).consensus.val = reply.returned
    /\ Len(Stored(reply.sessionId).tasks) = 2
    /\ FullyPopulated(Stored(reply.sessionId))

----------------------------------------------------------------------------
\* The executor's throw for a provider without a configuration

\* The texts under which a handler passes on an error of the manager
RewrapPrefixes ==
    {<<"parallel thinking failed: ">>, <<"summary failed: ">>, <<"consensus failed: ">>}

\* The error is the one executeTask throws at lines 107-109, as a handler rewraps it
ThrownByExecuteTask(message) ==
    \E p \in Providers, prefix \in RewrapPrefixes :
        message = prefix \o NotConfiguredError([provider |-> p])

\* C11: executeTask never fails outward: no tool call ends with the error
\* executeTask throws for a task whose provider is not configured.
C11_ExecutorNeverThrows ==
    (reply.op # "none" /\ reply.status = "error") => ~ThrownByExecuteTask(reply.message)

----------------------------------------------------------------------------
\* Task identifiers

\* No two tasks of the list have the same id
DistinctIds(tasks) ==
    \A i, j \in 1..Len(tasks) : i # j => tasks[i].id # tasks[j].id

\* C12: the tasks one executeParallelThoughts call generates have pairwise
\* different ids, for every providers list the input schema accepts and every
\* variants list.
C12_TaskIdsUnique ==
    /\ \A c \in CallIds :
           calls[c].op = "parallel-ai-think" => DistinctIds(calls[c].tasks)
    /\ \A k \in DOMAIN sessions : DistinctIds(Stored(k).tasks)

----------------------------------------------------------------------------
\* Providers the caller chooses

\* C13: a parallel-ai-think call whose providers list is non-empty and names
\* no configured provider replies with an error, suspends no call (so no task
\* is dispatched and no batch started) and leaves the store as it was.
C13_UnavailableChoiceRejected ==
    [][\A c \in CallIds :
        calls[c].op = "idle" =>
            \A prompt \in Prompts, providers \in ProviderInputs,
               sessionId \in SessionIdInputs, generated \in SessionIds :
                ( /\ providers.some /\ Len(providers.val) > 0
                  /\ \A i \in 1..Len(providers.val) : providers.val[i] \notin configs
                  /\ ParallelAiThink(c, prompt, providers, sessionId, generated,
                                     DefaultOptions(None)) ) =>
                    /\ reply'.op = "parallel-ai-think"
                    /\ reply'.status = "error"
                    /\ calls' = calls
                    /\ sessions' = sessions
                    /\ heap' = heap]_vars

\* A call that chose a provider outside the configured set has been refused,
\* with a provider configured and a session of an earlier call in the store
C13_Witness ==
    /\ configs = {"anthropic"}
    /\ reply.op = "parallel-ai-think"
    /\ reply.status = "error"
    /\ reply.message = <<"the given providers are not available">>
    /\ DOMAIN sessions # {}
    /\ \A c \in CallIds : calls[c].op = "idle"

----------------------------------------------------------------------------
\* The synthesis provider

\* C14: summarize-thoughts and find-consensus on an existing session with a
\* synthesis provider that is not configured, given or defaulted, do not end
\* with an error: the failure is a degraded text, as for a task of a batch.
C14_UnconfiguredSynthesisDegrades ==
    [][\A c \in CallIds, sessionId \in SessionIds, provider \in SynthesisProviderInputs :
        ( /\ sessionId \in DOMAIN sessions
          /\ SynthesisProvider(provider) \notin configs
          /\ \/ SummarizeThoughts(c, sessionId, provider)
             \/ FindConsensus(c, sessionId, provider) ) =>
            ~(reply'.op \in SynthesisOps /\ reply'.status = "error")]_vars

----------------------------------------------------------------------------
\* The frame of the synthesis writes

\* C15: the step in which a summarize call completes turns the stored session
\* into itself with summary set to the text returned, whatever summary it had:
\* sessionId, tasks, responses, consensus, totalDuration and timestamp keep
\* their values, and so does every other stored session. The same holds of a
\* consensus call and the consensus field.
C15_OnlyOwnFieldChanges ==
    [][\A c \in CallIds :
        /\ (calls[c].op = "summarize-thoughts" /\ calls'[c].op = "idle") =>
               /\ reply'.op = "summarize-thoughts" /\ reply'.status = "ok"
               /\ reply'.content.summary = reply'.returned
               /\ sessions' = sessions
               /\ sessions[calls[c].sessionId] = calls[c].session
               /\ StoredAfter(calls[c].sessionId) =
                      [Stored(calls[c].sessionId) EXCEPT
                          !.summary = Some(reply'.returned)]
               /\ \A k \in (DOMAIN sessions) \ {calls[c].sessionId} :
                      StoredAfter(k) = Stored(k)
        /\ (calls[c].op = "find-consensus" /\ calls'[c].op = "idle") =>
               /\ reply'.op = "find-consensus" /\ reply'.status = "ok"
               /\ reply'.content.consensus = reply'.returned
               /\ sessions' = sessions
               /\ sessions[calls[c].sessionId] = calls[c].session
               /\ StoredAfter(calls[c].sessionId) =
                      [Stored(calls[c].sessionId) EXCEPT
                          !.consensus = Some(reply'.returned)]
               /\ \A k \in (DOMAIN sessions) \ {calls[c].sessionId} :
                      StoredAfter(k) = Stored(k)]_vars

\* summarize-thoughts has replied for a session that has a consensus, with
\* another session in the store that has no summary
C15_Witness ==
    /\ reply.op = "summarize-thoughts"
    /\ reply.status = "ok"
    /\ DOMAIN sessions = SessionIds
    /\ Stored(reply.sessionId).summary.some
    /\ Stored(reply.sessionId).summary.val = reply.returned
    /\ Stored(reply.sessionId).consensus.some
    /\ \E k \in SessionIds \ {reply.sessionId} : ~Stored(k).summary.some

----------------------------------------------------------------------------
\* Where summaries and consensuses come from

\* The step completes a batch for the identifier
BatchCompletesFor(k) ==
    \E c \in CallIds :
        /\ calls[c].op = "parallel-ai-think"
        /\ calls'[c].op = "idle"
        /\ calls[c].sessionId = k

\* The step completes a call of the synthesis operation for the identifier
SynthesisCompletesFor(op, k) ==
    \E c \in CallIds :
        /\ calls[c].op = op
        /\ calls'[c].op = "idle"
        /\ calls[c].sessionId = k
        /\ reply'.op = op /\ reply'.status = "ok"

\* The field of the session under the identifier, absent when nothing is stored
FieldBefore(k, field) ==
    IF k \in DOMAIN sessions THEN Stored(k)[field] ELSE None

\* C16: an identifier enters the store only when a batch completes for it;
\* the session a completed batch stores, new or replacing an earlier one,
\* has neither summary nor consensus; and in any other step the summary of a
\* stored session changes only when a summarize call on it completes, to the
\* text returned, and its consensus only when a consensus call on it completes.
C16_AbsentUntilComputed ==
    [][\A k \in DOMAIN sessions' :
        IF BatchCompletesFor(k)
        THEN ~StoredAfter(k).summary.some /\ ~StoredAfter(k).consensus.some
        ELSE /\ k \in DOMAIN sessions
             /\ StoredAfter(k).summary # FieldBefore(k, "summary") =>
                    /\ SynthesisCompletesFor("summarize-thoughts", k)
                    /\ StoredAfter(k).summary = Some(reply'.returned)
             /\ StoredAfter(k).consensus # FieldBefore(k, "consensus") =>
                    /\ SynthesisCompletesFor("find-consensus", k)
                    /\ StoredAfter(k).consensus = Some(reply'.returned)]_vars

\* A batch has just stored a session, without summary or consensus, beside a
\* session that has both
C16_Witness ==
    /\ reply.op = "parallel-ai-think"
    /\ reply.status = "ok"
    /\ reply.sessionId \in DOMAIN sessions
    /\ ~Stored(reply.sessionId).summary.some
    /\ ~Stored(reply.sessionId).consensus.some
    /\ \E k \in (DOMAIN sessions) \ {reply.sessionId} :
           Stored(k).summary.some /\ Stored(k).consensus.some

----------------------------------------------------------------------------
\* The lifetime of a session

\* C17: every identifier in the store before a step is in the store after it.
C17_SessionsNeverDeleted ==
    [][DOMAIN sessions \subseteq DOMAIN sessions']_vars

\* Both identifiers are stored, and calls of every kind have followed the
\* first insertion: the session of one has been summarized and given a consensus
C17_Witness ==
    /\ DOMAIN sessions = SessionIds
    /\ reply.op = "parallel-ai-think"
    /\ reply.status = "ok"
    /\ \E k \in SessionIds \ {reply.sessionId} :
           Stored(k).summary.some /\ Stored(k).consensus.some
    /\ Len(Stored(reply.sessionId).tasks) = 1

----------------------------------------------------------------------------
\* The concurrent specification: two tool calls in progress at once on one
\* session identifier. The server starts a handler for each request as it
\* arrives, so a second call can start while the first is suspended at an await.

ConcCallIds == {1, 2}

ConcSessionId == "s1"

\* Single-provider batches, told apart by their provider
ConcProviderInputs == {Some(<<"openai">>), Some(<<"anthropic">>)}

ConcOutcomes == {CallOk(<<"answer">>, Some(Usage))}

InitConc ==
    /\ configs = UsedProviders
    /\ sessions = <<>>
    /\ heap = <<>>
    /\ calls = [c \in ConcCallIds |-> Idle]
    /\ reply = NoReply
    /\ now = 0

NextConc ==
    \/ \E c \in ConcCallIds :
            /\ calls[c].op = "idle"
            /\ \E prompt \in Prompts, providers \in ConcProviderInputs :
                    ParallelAiThink(c, prompt, providers, Some(ConcSessionId),
                                    ConcSessionId, DefaultOptions(None))
    \/ \E c \in ConcCallIds, outcome \in ConcOutcomes : BatchTaskSettles(c, 1, outcome)
    \/ \E c \in ConcCallIds : SummarizeThoughts(c, ConcSessionId, None)
    \/ \E c \in ConcCallIds : FindConsensus(c, ConcSessionId, None)
    \/ \E c \in ConcCallIds, outcome \in SummaryOutcomes : SummarySettles(c, outcome)
    \/ \E c \in ConcCallIds, outcome \in ConsensusOutcomes : ConsensusSettles(c, outcome)

SpecConc == InitConc /\ [][NextConc]_vars

\* C18: a summarize call and a consensus call on the same session, overlapping
\* in any order, lose no update. A synthesis call that starts holds the session
\* object the store holds; the store puts another object under the identifier
\* only when a batch completes for it; and when either call completes on the
\* object the store still holds, its text is written into that object while
\* the other field, the tasks and the responses keep their values - so after
\* both have completed the stored session holds both texts.
C18_NoLostUpdate ==
    [][\A c \in ConcCallIds :
        /\ (calls[c].op = "idle" /\ calls'[c].op \in SynthesisOps) =>
               /\ calls'[c].sessionId \in DOMAIN sessions
               /\ calls'[c].session = sessions[calls'[c].sessionId]
        /\ \A k \in DOMAIN sessions :
               (k \notin DOMAIN sessions' \/ sessions'[k] # sessions[k]) =>
                   \E d \in ConcCallIds :
                       /\ calls[d].op = "parallel-ai-think"
                       /\ calls'[d].op = "idle"
                       /\ calls[d].sessionId = k
        /\ ( /\ calls[c].op = "summarize-thoughts" /\ calls'[c].op = "idle"
             /\ sessions[calls[c].sessionId] = calls[c].session ) =>
               /\ reply'.op = "summarize-thoughts" /\ reply'.status = "ok"
               /\ StoredAfter(calls[c].sessionId).summary = Some(reply'.returned)
               /\ StoredAfter(calls[c].sessionId).consensus =
                      Stored(calls[c].sessionId).consensus
               /\ StoredAfter(calls[c].sessionId).tasks = Stored(calls[c].sessionId).tasks
               /\ StoredAfter(calls[c].sessionId).responses =
                      Stored(calls[c].sessionId).responses
        /\ ( /\ calls[c].op = "find-consensus" /\ calls'[c].op = "idle"
             /\ sessions[calls[c].sessionId] = calls[c].session ) =>
               /\ reply'.op = "find-consensus" /\ reply'.status = "ok"
               /\ StoredAfter(calls[c].sessionId).consensus = Some(reply'.returned)
               /\ StoredAfter(calls[c].sessionId).summary =
                      Stored(calls[c].sessionId).summary
               /\ StoredAfter(calls[c].sessionId).tasks = Stored(calls[c].sessionId).tasks
               /\ StoredAfter(calls[c].sessionId).responses =
                      Stored(calls[c].sessionId).responses]_vars

\* A summarize call and a consensus call are in flight at once on the object
\* the store holds, and one synthesis text is already in it
C18_Witness ==
    \E c, d \in ConcCallIds :
        /\ calls[c].op = "summarize-thoughts"
        /\ calls[d].op = "find-consensus"
        /\ calls[c].sessionId = calls[d].sessionId
        /\ calls[c].session = calls[d].session
        /\ sessions[calls[c].sessionId] = calls[c].session
        /\ Stored(calls[c].sessionId).consensus.some

----------------------------------------------------------------------------
\* list-sessions

\* s => ({ sessionId, responsesCount, totalDuration, timestamp, hasSummary, hasConsensus })
ListSessionsEntry(s) ==
    [ sessionId      |-> s.sessionId,
      responsesCount |-> Len(s.responses),
      totalDuration  |-> s.totalDuration,
      timestamp      |-> s.timestamp,
      hasSummary     |-> TruthyText(s.summary),
      hasConsensus   |-> TruthyText(s.consensus) ]

\* The list-sessions handler, lines 671-693; the entries as a set
ListSessions ==
    /\ reply' = [ op      |-> "list-sessions",
                  status  |-> "ok",
                  content |-> [ sessions      |-> {ListSessionsEntry(s) : s \in getAllSessions},
                                totalSessions |-> Cardinality(DOMAIN sessions),
                                timestamp     |-> now ] ]
    /\ UNCHANGED <<configs, sessions, heap, calls, now>>

----------------------------------------------------------------------------
\* The listing specification: calls one after another on single-provider
\* batches, synthesis calls that return a text or the empty text, and the
\* client listing the sessions

\* A synthesis call answered with a text, or with a body the adapter reads no
\* text from (`|| ''`)
ListOutcomes == {CallOk(<<"the text">>, Some(Usage)), CallOk(<<>>, None)}

ListProviderInputs == {Some(<<"openai">>)}

InitList ==
    /\ configs = UsedProviders
    /\ sessions = <<>>
    /\ heap = <<>>
    /\ calls = [c \in CallIds |-> Idle]
    /\ reply = NoReply
    /\ now = 0

NextList ==
    \/ \E c \in CallIds :
            /\ calls[c].op = "idle"
            /\ \E prompt \in Prompts, providers \in ListProviderInputs,
                  sessionId \in SessionIds :
                    ParallelAiThink(c, prompt, providers, Some(sessionId), sessionId,
                                    DefaultOptions(None))
    \/ \E c \in CallIds, outcome \in ConcOutcomes : BatchTaskSettles(c, 1, outcome)
    \/ \E c \in CallIds, sessionId \in SessionIds : SummarizeThoughts(c, sessionId, None)
    \/ \E c \in CallIds, sessionId \in SessionIds : FindConsensus(c, sessionId, None)
    \/ \E c \in CallIds, outcome \in ListOutcomes : SummarySettles(c, outcome)
    \/ \E c \in CallIds, outcome \in ListOutcomes : ConsensusSettles(c, outcome)
    \/ ListSessions

SpecList == InitList /\ [][NextList]_vars

\* C19: the listing has one entry per stored session, and the entry of a
\* session gives the number of its responses, hasSummary true exactly when a
\* summary has been written to it and hasConsensus true exactly when a
\* consensus has, whatever the text.
C19_ListingReportsComputed ==
    reply.op = "list-sessions" =>
        /\ Cardinality(reply.content.sessions) = Cardinality(DOMAIN sessions)
        /\ reply.content.totalSessions = Cardinality(DOMAIN sessions)
        /\ \A k \in DOMAIN sessions :
               \E e \in reply.content.sessions :
                   /\ e.sessionId = k
                   /\ e.responsesCount = Len(Stored(k).responses)
                   /\ e.hasSummary <=> Stored(k).summary.some
                   /\ e.hasConsensus <=> Stored(k).consensus.some

----------------------------------------------------------------------------
\* Empty task lists

\* C20: a request whose task list would be empty is rejected: no call
\* completes with an empty task list, and no session without tasks is stored.
C20_EmptyTaskListRejected ==
    /\ (reply.op = "parallel-ai-think" /\ reply.status = "ok") =>
           Len(reply.result.tasks) > 0
    /\ \A k \in DOMAIN sessions : Len(Stored(k).tasks) > 0

----------------------------------------------------------------------------
\* The join specification: batches of up to MaxMembers tasks on one session
\* identifier, one after another, in which every provider call that is in
\* flight eventually returns or fails

MaxMembers == 2

JoinSessionId == "s1"

JoinProviderInputs ==
    {Some(l) : l \in SeqsUpTo(UsedProviders, MaxMembers) \ {<<>>}}

InitJoin ==
    /\ configs = UsedProviders
    /\ sessions = <<>>
    /\ heap = <<>>
    /\ calls = [c \in CallIds |-> Idle]
    /\ reply = NoReply
    /\ now = 0

StartJoin ==
    \E c \in CallIds :
        /\ calls[c].op = "idle"
        /\ \E prompt \in Prompts, providers \in JoinProviderInputs :
               ParallelAiThink(c, prompt, providers, Some(JoinSessionId),
                               JoinSessionId, DefaultOptions(None))

\* fetch resolves or rejects for member i of call c
MemberReturns(c, i) == \E outcome \in StoreOutcomes : BatchTaskSettles(c, i, outcome)

NextJoin ==
    \/ StartJoin
    \/ \E c \in CallIds, i \in 1..MaxMembers : MemberReturns(c, i)

\* Every provider call in flight eventually returns or fails; a new request
\* need never arrive
SpecJoin ==
    /\ InitJoin
    /\ [][NextJoin]_vars
    /\ \A c \in CallIds, i \in 1..MaxMembers : WF_vars(MemberReturns(c, i))

\* Member i of the batch call c runs has not returned
Pending(c, i) ==
    /\ calls[c].op = "parallel-ai-think"
    /\ i \in (1..Len(calls[c].tasks)) \ DOMAIN calls[c].results

\* Call c has completed a batch of n tasks and the store holds its session
JoinCompleted(c, n) ==
    /\ calls[c].op = "idle"
    /\ reply.op = "parallel-ai-think" /\ reply.status = "ok" /\ reply.call = c
    /\ Len(reply.result.tasks) = n
    /\ DOMAIN reply.result.responses = 1..n
    /\ reply.sessionId \in DOMAIN sessions
    /\ Stored(reply.sessionId) = reply.result

\* C21: a batch whose members all eventually return or fail eventually
\* completes and stores its session. While a member has not returned, the
\* batch stays suspended, sends no reply and leaves the store as it is,
\* however many other members have returned: a member leaves the pending set
\* only by returning, and the batch completes only in the step in which its
\* last pending member returns - so a member that never returns keeps the
\* batch from ever completing or writing.
C21_JoinAll ==
    /\ \A c \in CallIds, n \in 1..(MaxMembers + 1) :
           (calls[c].op = "parallel-ai-think" /\ Len(calls[c].tasks) = n)
               ~> JoinCompleted(c, n)
    /\ [][\A c \in CallIds, i \in 1..(MaxMembers + 1) :
            /\ (Pending(c, i) /\ Pending(c, i)') =>
                   /\ sessions' = sessions
                   /\ heap' = heap
                   /\ reply'.op = "none"
                   /\ calls'[c].tasks = calls[c].tasks
            /\ (Pending(c, i) /\ ~Pending(c, i)') =>
                   /\ i \in DOMAIN ResponsesAfter(c)
                   /\ MatchesTask(ResponsesAfter(c)[i], calls[c].tasks[i])
            /\ (Pending(c, i) /\ calls'[c].op = "idle") =>
                   DOMAIN calls[c].results = (1..Len(calls[c].tasks)) \ {i}]_vars

\* The first member of a batch of two has returned, the second has not, and
\* the store does not hold the session of this batch
C21_Witness ==
    \E c \in CallIds :
        /\ Pending(c, 2)
        /\ 1 \in DOMAIN calls[c].results
        /\ calls[c].sessionId \notin DOMAIN sessions

----------------------------------------------------------------------------
\* list-providers

\* The list-providers handler, lines 645-660
ListProviders ==
    /\ reply' = [ op      |-> "list-providers",
                  status  |-> "ok",
                  content |-> [ availableProviders |-> getAvailableProviders,
                                totalCount         |-> Len(getAvailableProviders),
                                timestamp          |-> now ] ]
    /\ UNCHANGED <<configs, sessions, heap, calls, now>>

----------------------------------------------------------------------------
\* The cost-tiered helpers: delegate-to-cheap-llm, draft-and-refine,
\* summarize-for-efficiency and batch-process-cheap

CheapProviderOrder == <<"deepseek", "ollama">>

PremiumProviderOrder == <<"openai", "anthropic", "gemini">>

\* A filter that keeps every cheap provider, configured or not
cheapProviders_Unfiltered == CheapProviderOrder

\* ['deepseek', 'ollama'].filter(p => availableProviders.includes(p))
cheapProviders ==
    LET Available(p) == p \in Range(getAvailableProviders)
    IN  SelectSeq(CheapProviderOrder, Available)

\* ['openai', 'anthropic', 'gemini'].filter(p => availableProviders.includes(p))
premiumProviders ==
    LET Available(p) == p \in Range(getAvailableProviders)
    IN  SelectSeq(PremiumProviderOrder, Available)

\* A choice that falls back to the first provider of any kind that is available
SelectProvider_AnyAvailable(provider, list) ==
    IF provider.some /\ provider.val \in Range(list) THEN provider.val
    ELSE getAvailableProviders[1]

\* provider && list.includes(provider) ? provider : list[0]
SelectProvider(provider, list) ==
    IF provider.some /\ provider.val \in Range(list) THEN provider.val ELSE list[1]

\* A helper call suspended at `await thoughtManager.executeTask(task)`: the
\* tasks it has dispatched so far and the responses it has
SuspendedHelper(op, input, tasks, results) ==
    [ op        |-> op,
      input     |-> input,
      tasks     |-> tasks,
      results   |-> results,
      startTime |-> now ]

\* thoughtManager.executeTask(task) up to its await in callAI, or its throw at
\* lines 107-109, which leaves the handler under `prefix`
DispatchHelper(c, op, prefix, call) ==
    LET task == call.tasks[Len(call.tasks)]
    IN  IF task.provider \notin configs
        THEN /\ reply' = [ op |-> op, status |-> "error", call |-> c,
                           message |-> prefix \o NotConfiguredError(task) ]
             /\ calls' = [calls EXCEPT ![c] = Idle]
             /\ UNCHANGED <<configs, sessions, heap, now>>
        ELSE /\ calls' = [calls EXCEPT ![c] = call]
             /\ reply' = NoReply
             /\ UNCHANGED <<configs, sessions, heap, now>>

\* A helper that keeps a record of its reply in the session store, under its name
HelperReplies_KeepsRecord(c, op, content) ==
    LET ref == FreshRef({sessions[k] : k \in (DOMAIN sessions) \ {op}})
        sessions1 == SessionsSet(sessions, op, ref)
        calls1 == [calls EXCEPT ![c] = Idle]
    IN  /\ calls' = calls1
        /\ sessions' = sessions1
        /\ heap' = Collect(MapSet(heap, ref, BatchResult(op, <<>>, <<>>, now, now)),
                           sessions1, calls1)
        /\ reply' = [op |-> op, status |-> "ok", call |-> c, content |-> content]
        /\ UNCHANGED <<configs, now>>

\* The reply of a helper that has its last response
HelperReplies(c, op, content) ==
    /\ calls' = [calls EXCEPT ![c] = Idle]
    /\ reply' = [op |-> op, status |-> "ok", call |-> c, content |-> content]
    /\ UNCHANGED <<configs, sessions, heap, now>>

\* The delegationTask literal, lines 722-731; the schema fills in temperature
\* 0.3 (tenths) and maxTokens 1000
DelegationTask(task, targetProvider, model) ==
    [ id          |-> <<"delegate-", ToString(now)>>,
      prompt      |-> <<"[delegate instructions]\n\n">> \o task,
      provider    |-> targetProvider,
      model       |-> model,
      temperature |-> Some(3),
      maxTokens   |-> Some(1000) ]

\* The delegate-to-cheap-llm handler up to its await, lines 710-734
DelegateToCheapLlm(c, task, provider, model) ==
    /\ calls[c].op = "idle"
    /\ IF Len(cheapProviders) = 0
       THEN Throws(c, "delegate-to-cheap-llm", <<"no cheap provider is available">>)
       ELSE LET targetProvider == SelectProvider(provider, cheapProviders)
            IN  DispatchHelper(c, "delegate-to-cheap-llm", <<"delegation failed: ">>,
                    SuspendedHelper("delegate-to-cheap-llm", [task |-> task],
                        <<DelegationTask(task, targetProvider, model)>>, <<>>))

\* The provider call of a delegation settles: lines 736-752
DelegateSettles(c, outcome) ==
    /\ calls[c].op = "delegate-to-cheap-llm"
    /\ LET call == calls[c]
           response == executeTask(call.tasks[1], outcome, call.startTime, now)
       IN  HelperReplies(c, "delegate-to-cheap-llm",
               JsonObject([ task        |-> call.input.task,
                            delegatedTo |-> call.tasks[1].provider,
                            model       |-> response.model,
                            result      |-> response.response,
                            tokenUsage  |-> response.usage,
                            duration    |-> response.duration,
                            timestamp   |-> response.timestamp ], {"tokenUsage"}))

\* The draftTask literal, lines 791-799
DraftTask(task, selectedCheap, draftMaxTokens) ==
    [ id          |-> <<"draft-", ToString(now)>>,
      prompt      |-> <<"[draft instructions]\n\n">> \o task,
      provider    |-> selectedCheap,
      model       |-> None,
      temperature |-> Some(7),
      maxTokens   |-> Some(draftMaxTokens) ]

\* A refine task made from the request alone
RefineTask_IgnoresDraft(task, draft, selectedPremium, refineMaxTokens) ==
    [ id          |-> <<"refine-", ToString(now)>>,
      prompt      |-> <<"[refine instructions]\n\n[request]\n">> \o task
                          \o <<"\n\n[refine request]">>,
      provider    |-> selectedPremium,
      model       |-> None,
      temperature |-> Some(3),
      maxTokens   |-> Some(refineMaxTokens) ]

\* The refineTask literal, lines 804-818
RefineTask(task, draft, selectedPremium, refineMaxTokens) ==
    [ id          |-> <<"refine-", ToString(now)>>,
      prompt      |-> <<"[refine instructions]\n\n[request]\n">> \o task
                          \o <<"\n\n[draft]\n">> \o draft \o <<"\n\n[refine request]">>,
      provider    |-> selectedPremium,
      model       |-> None,
      temperature |-> Some(3),
      maxTokens   |-> Some(refineMaxTokens) ]

\* The default values the draft-and-refine schema gives its two token budgets
DefaultDraftMaxTokens == 1000

DefaultRefineMaxTokens == 800

\* The draft-and-refine handler up to its first await, lines 773-801
DraftAndRefine(c, task, cheapProvider, refineProvider) ==
    /\ calls[c].op = "idle"
    /\ IF Len(cheapProviders) = 0
       THEN Throws(c, "draft-and-refine", <<"no cheap provider is available">>)
       ELSE IF Len(premiumProviders) = 0
       THEN Throws(c, "draft-and-refine", <<"no premium provider is available">>)
       ELSE LET selectedCheap == SelectProvider(cheapProvider, cheapProviders)
                selectedPremium == SelectProvider(refineProvider, premiumProviders)
            IN  DispatchHelper(c, "draft-and-refine", <<>>,
                    SuspendedHelper("draft-and-refine",
                        [task |-> task, selectedPremium |-> selectedPremium],
                        <<DraftTask(task, selectedCheap, DefaultDraftMaxTokens)>>, <<>>))

\* The draft call settles: the handler builds the refine task from the draft
\* and dispatches it, lines 801-820
DraftSettles(c, outcome) ==
    /\ calls[c].op = "draft-and-refine"
    /\ Len(calls[c].tasks) = 1
    /\ LET call == calls[c]
           draftResponse == executeTask(call.tasks[1], outcome, call.startTime, now)
           refineTask == RefineTask(call.input.task, draftResponse.response,
                                    call.input.selectedPremium, DefaultRefineMaxTokens)
       IN  DispatchHelper(c, "draft-and-refine", <<>>,
               SuspendedHelper("draft-and-refine", call.input,
                               <<call.tasks[1], refineTask>>, <<draftResponse>>))

\* The refine call settles: lines 820-848
RefineSettles(c, outcome) ==
    /\ calls[c].op = "draft-and-refine"
    /\ Len(calls[c].tasks) = 2
    /\ LET call == calls[c]
           draftResponse == call.results[1]
           refinedResponse == executeTask(call.tasks[2], outcome, call.startTime, now)
       IN  HelperReplies(c, "draft-and-refine",
               [ task          |-> call.input.task,
                 draftPhase    |->
                     JsonObject([ provider |-> call.tasks[1].provider,
                                  model    |-> draftResponse.model,
                                  tokens   |-> draftResponse.usage,
                                  duration |-> draftResponse.duration ], {"tokens"}),
                 refinePhase   |->
                     JsonObject([ provider |-> call.tasks[2].provider,
                                  model    |-> refinedResponse.model,
                                  tokens   |-> refinedResponse.usage,
                                  duration |-> refinedResponse.duration ], {"tokens"}),
                 draft         |-> draftResponse.response,
                 finalResult   |-> refinedResponse.response,
                 totalDuration |-> draftResponse.duration + refinedResponse.duration ])

SummaryLengths == {"short", "medium", "detailed"}

\* summaryLength === 'short' ? 200 : summaryLength === 'medium' ? 400 : 600
SummaryMaxTokens(summaryLength) ==
    IF summaryLength = "short" THEN 200
    ELSE IF summaryLength = "medium" THEN 400 ELSE 600

\* The summaryTask literal of summarize-for-efficiency, lines 882-897
EfficiencySummaryTask(text, summaryLength, targetProvider, focus) ==
    [ id          |-> <<"summary-", ToString(now)>>,
      prompt      |-> <<"[summarize ", summaryLength, "]">>
                          \o (IF TruthyText(focus)
                              THEN <<"[focus on ">> \o focus.val \o <<"]">> ELSE <<>>)
                          \o <<"\n\n[text]\n">> \o text \o <<"\n\n[summary:]">>,
      provider    |-> targetProvider,
      model       |-> None,
      temperature |-> Some(1),
      maxTokens   |-> Some(SummaryMaxTokens(summaryLength)) ]

\* The summarize-for-efficiency handler up to its await, lines 865-899
SummarizeForEfficiency(c, text, summaryLength, provider, focus) ==
    /\ calls[c].op = "idle"
    /\ IF Len(cheapProviders) = 0
       THEN Throws(c, "summarize-for-efficiency", <<"no cheap provider is available">>)
       ELSE LET targetProvider == SelectProvider(provider, cheapProviders)
            IN  DispatchHelper(c, "summarize-for-efficiency", <<>>,
                    SuspendedHelper("summarize-for-efficiency", [text |-> text],
                        <<EfficiencySummaryTask(text, summaryLength, targetProvider,
                                                focus)>>, <<>>))

\* The provider call of summarize-for-efficiency settles: lines 901-917; the
\* two character counts and their ratio are left out of the content
EfficiencySummarySettles(c, outcome) ==
    /\ calls[c].op = "summarize-for-efficiency"
    /\ LET call == calls[c]
           response == executeTask(call.tasks[1], outcome, call.startTime, now)
       IN  HelperReplies(c, "summarize-for-efficiency",
               JsonObject([ summary    |-> response.response,
                            provider   |-> call.tasks[1].provider,
                            tokenUsage |-> response.usage,
                            duration   |-> response.duration ], {"tokenUsage"}))

\* The default value the batch-process-cheap schema gives maxTokensPerTask
DefaultMaxTokensPerTask == 200

\* The ceiling of Math.min(tasks.length * maxTokensPerTask, 2000)
BatchMaxTokensCeiling == 2000

Min(a, b) == IF a <= b THEN a ELSE b

\* tasks.map((task, index) => `${index + 1}. ${task}`).join('\n')
NumberedTasks(tasks) ==
    Join([i \in 1..Len(tasks) |-> <<ToString(i), ". ">> \o tasks[i]], <<"\n">>)

\* The batchTask literal, lines 944-963
BatchTask(tasks, targetProvider, maxTokensPerTask) ==
    [ id          |-> <<"batch-", ToString(now)>>,
      prompt      |-> <<"[batch of ", ToString(Len(tasks)), "]\n\n">>
                          \o NumberedTasks(tasks) \o <<"\n\n[batch format]">>,
      provider    |-> targetProvider,
      model       |-> None,
      temperature |-> Some(3),
      maxTokens   |-> Some(Min(Len(tasks) * maxTokensPerTask, BatchMaxTokensCeiling)) ]

\* The batch-process-cheap handler up to its await, lines 933-965
BatchProcessCheap(c, tasks, provider, maxTokensPerTask) ==
    /\ calls[c].op = "idle"
    /\ IF Len(cheapProviders) = 0
       THEN Throws(c, "batch-process-cheap", <<"no cheap provider is available">>)
       ELSE LET targetProvider == SelectProvider(provider, cheapProviders)
            IN  DispatchHelper(c, "batch-process-cheap", <<>>,
                    SuspendedHelper("batch-process-cheap", [tasks |-> tasks],
                        <<BatchTask(tasks, targetProvider, maxTokensPerTask)>>, <<>>))

\* The provider call of batch-process-cheap settles: lines 967-982
BatchProcessSettles(c, outcome) ==
    /\ calls[c].op = "batch-process-cheap"
    /\ LET call == calls[c]
           response == executeTask(call.tasks[1], outcome, call.startTime, now)
       IN  HelperReplies(c, "batch-process-cheap",
               JsonObject([ tasksCount  |-> Len(call.input.tasks),
                            batchResult |-> response.response,
                            provider    |-> call.tasks[1].provider,
                            model       |-> response.model,
                            tokenUsage  |-> response.usage,
                            duration    |-> response.duration ], {"tokenUsage"}))

----------------------------------------------------------------------------
\* The tools specification: the ten tools, called one after another, with any
\* subset of a premium and the two cheap providers configured

ToolProviders == {"anthropic", "deepseek", "ollama"}

ToolSessionId == "s1"

\* The providers a parallel-ai-think caller names: none, or a cheap and a
\* premium one, of which the environment may have configured either, both or neither
ToolProviderInputs == {None, Some(<<"deepseek", "anthropic">>)}

ToolOutcomes == {CallOk(<<"answer">>, Some(Usage)), CallFails("fetch failed")}

HelperTexts == {<<"the task">>}

CheapProviderInputs == {None, Some("deepseek"), Some("ollama")}

PremiumProviderInputs == {None, Some("anthropic"), Some("openai")}

InitTools ==
    /\ configs \in SUBSET ToolProviders
    /\ sessions = <<>>
    /\ heap = <<>>
    /\ calls = [c \in CallIds |-> Idle]
    /\ reply = NoReply
    /\ now = 0

NextTools ==
    \/ \E c \in CallIds :
            /\ calls[c].op = "idle"
            /\ \E prompt \in Prompts, providers \in ToolProviderInputs :
                    ParallelAiThink(c, prompt, providers, Some(ToolSessionId),
                                    ToolSessionId, DefaultOptions(None))
    \/ \E c \in CallIds, i \in 1..Cardinality(ToolProviders), outcome \in ToolOutcomes :
            BatchTaskSettles(c, i, outcome)
    \/ \E c \in CallIds : SummarizeThoughts(c, ToolSessionId, None)
    \/ \E c \in CallIds : FindConsensus(c, ToolSessionId, None)
    \/ \E c \in CallIds, outcome \in SummaryOutcomes : SummarySettles(c, outcome)
    \/ \E c \in CallIds, outcome \in ConsensusOutcomes : ConsensusSettles(c, outcome)
    \/ \E sessionId \in SessionIds : GetSessionInfo(sessionId)
    \/ ListSessions
    \/ ListProviders
    \/ \E c \in CallIds, task \in HelperTexts, provider \in CheapProviderInputs :
            DelegateToCheapLlm(c, task, provider, None)
    \/ \E c \in CallIds, outcome \in ToolOutcomes : DelegateSettles(c, outcome)
    \/ \E c \in CallIds, task \in HelperTexts, cheapProvider \in CheapProviderInputs,
          refineProvider \in PremiumProviderInputs :
            DraftAndRefine(c, task, cheapProvider, refineProvider)
    \/ \E c \in CallIds, outcome \in ToolOutcomes : DraftSettles(c, outcome)
    \/ \E c \in CallIds, outcome \in ToolOutcomes : RefineSettles(c, outcome)
    \/ \E c \in CallIds, text \in HelperTexts, summaryLength \in SummaryLengths,
          provider \in CheapProviderInputs :
            SummarizeForEfficiency(c, text, summaryLength, provider, None)
    \/ \E c \in CallIds, outcome \in ToolOutcomes : EfficiencySummarySettles(c, outcome)
    \/ \E c \in CallIds, tasks \in SeqsUpTo(HelperTexts, 2),
          provider \in CheapProviderInputs :
            BatchProcessCheap(c, tasks, provider, DefaultMaxTokensPerTask)
    \/ \E c \in CallIds, outcome \in ToolOutcomes : BatchProcessSettles(c, outcome)

SpecTools == InitTools /\ [][NextTools]_vars

----------------------------------------------------------------------------
\* Who writes the store (SpecTools)

\* The store as getSession shows it: the session under each identifier
StoreView == [k \in DOMAIN sessions |-> Stored(k)]

ReadOnlyOps ==
    { "get-session-info", "list-sessions", "list-providers", "delegate-to-cheap-llm",
      "draft-and-refine", "summarize-for-efficiency", "batch-process-cheap" }

\* C22: the store changes only in the step in which a batch completes, which
\* puts the session returned under the batch's identifier and touches no other
\* key, and in the step in which a summarize or consensus call completes,
\* which sets that one field of the session to the text returned. A step of
\* any other tool, a step that suspends a call, and a step that ends a call
\* with an error leave the store as it was.
C22_StoreWrittenOnlyByCompletions ==
    [][/\ \A c \in CallIds :
              (calls[c].op = "parallel-ai-think" /\ calls'[c].op = "idle") =>
                  /\ reply'.op = "parallel-ai-think" /\ reply'.status = "ok"
                  /\ StoreView' = MapSet(StoreView, calls[c].sessionId, reply'.result)
       /\ StoreView' # StoreView =>
              \E c \in CallIds :
                  /\ calls'[c].op = "idle"
                  /\ reply'.op = calls[c].op /\ reply'.status = "ok"
                  /\ \/ calls[c].op = "parallel-ai-think"
                     \/ /\ calls[c].op = "summarize-thoughts"
                        /\ StoreView' = [StoreView EXCEPT ![calls[c].sessionId].summary =
                                            Some(reply'.returned)]
                     \/ /\ calls[c].op = "find-consensus"
                        /\ StoreView' = [StoreView EXCEPT ![calls[c].sessionId].consensus =
                                            Some(reply'.returned)]
       /\ (\E c \in CallIds : calls[c].op \in ReadOnlyOps \/ calls'[c].op \in ReadOnlyOps) =>
              StoreView' = StoreView
       /\ (reply'.op \in ReadOnlyOps \/ calls' = calls) => StoreView' = StoreView
       /\ (reply'.op # "none" /\ reply'.status = "error") => StoreView' = StoreView]_vars

\* A draft-and-refine call has replied while the store holds a summarized session
C22_Witness ==
    /\ reply.op = "draft-and-refine"
    /\ reply.status = "ok"
    /\ ToolSessionId \in DOMAIN sessions
    /\ Stored(ToolSessionId).summary.some
    /\ Len(Stored(ToolSessionId).responses) > 0

----------------------------------------------------------------------------
\* What the synthesis prompts embed (Spec)

RECURSIVE IsSubsequence(_, _)
\* The tokens of `needle` occur in `text`, in their order
IsSubsequence(needle, text) ==
    IF needle = <<>> THEN TRUE
    ELSE IF text = <<>> THEN FALSE
    ELSE IF Head(needle) = Head(text) THEN IsSubsequence(Tail(needle), Tail(text))
    ELSE IsSubsequence(needle, Tail(text))

RECURSIVE LabelsAndTexts(_, _)
\* For each response in order: its provider, its model when asked for, its text
LabelsAndTexts(responses, withModel) ==
    IF responses = <<>> THEN <<>>
    ELSE <<Head(responses).provider>>
             \o (IF withModel THEN <<Head(responses).model>> ELSE <<>>)
             \o Head(responses).response
             \o LabelsAndTexts(Tail(responses), withModel)

\* The responses of the session a suspended synthesis call works on
SessionResponses(c) == heap[calls[c].session].responses

\* C23 as claimed: the one task of a summarize call, and the one task of a
\* consensus call, has a prompt in which the provider, the model and the text
\* of every response of the session occur, response after response in the
\* session's order.
C23_PromptsEmbedProviderModelText ==
    \A c \in CallIds :
        calls[c].op \in SynthesisOps =>
            /\ Len(calls[c].tasks) = 1
            /\ IsSubsequence(LabelsAndTexts(SessionResponses(c), TRUE),
                             calls[c].tasks[1].prompt)

\* C23, amended: the prompt of the one summarize task has the provider, the
\* model and the text of every response of the session, in the session's
\* order; the prompt of the one consensus task has the provider and the text
\* of every response, in the session's order, and no model.
C23_PromptsEmbedResponses ==
    \A c \in CallIds :
        /\ calls[c].op \in SynthesisOps => Len(calls[c].tasks) = 1
        /\ calls[c].op = "summarize-thoughts" =>
               IsSubsequence(LabelsAndTexts(SessionResponses(c), TRUE),
                             calls[c].tasks[1].prompt)
        /\ calls[c].op = "find-consensus" =>
               /\ IsSubsequence(LabelsAndTexts(SessionResponses(c), FALSE),
                                calls[c].tasks[1].prompt)
               /\ \A i \in 1..Len(SessionResponses(c)) :
                      SessionResponses(c)[i].model \notin Range(calls[c].tasks[1].prompt)

\* A summarize call is in flight on a session of two responses, from two
\* providers, one an answer and one an error text
C23_Witness ==
    \E c \in CallIds :
        /\ calls[c].op = "summarize-thoughts"
        /\ Len(SessionResponses(c)) = 2
        /\ SessionResponses(c)[1].provider # SessionResponses(c)[2].provider
        /\ \E i, j \in 1..2 :
               /\ IsErrorResponse(SessionResponses(c)[i])
               /\ SessionResponses(c)[j].response = <<"answer">>

----------------------------------------------------------------------------
\* The order and the prompts of the generated tasks (SpecBatch)

\* The variants a suspended batch was asked for; one empty variant when none
VariantsOf(call) ==
    IF call.options.variants.some THEN call.options.variants.val ELSE << <<>> >>

\* C24: the tasks of a batch are the pairs of its providers and its variants,
\* provider by provider and, under each provider, variant by variant; the
\* prompt of the task of a pair is the base prompt when the variant is empty,
\* and the base prompt, a blank line and the variant when it is not.
C24_ProviderMajorProduct ==
    \A c \in CallIds :
        calls[c].op = "parallel-ai-think" =>
            LET ps == calls[c].providers
                vs == VariantsOf(calls[c])
                tasks == calls[c].tasks
            IN  /\ Len(tasks) = Len(ps) * Len(vs)
                /\ \A p \in 1..Len(ps), v \in 1..Len(vs) :
                       LET task == tasks[(p - 1) * Len(vs) + v]
                       IN  /\ task.provider = ps[p]
                           /\ vs[v] = <<>> => task.prompt = calls[c].prompt
                           /\ vs[v] # <<>> =>
                                  task.prompt = calls[c].prompt \o <<"\n\n">> \o vs[v]

\* A batch over two providers and two variants, the first of them empty, is in flight
C24_Witness ==
    \E c \in CallIds :
        /\ calls[c].op = "parallel-ai-think"
        /\ calls[c].providers = <<"anthropic", "openai">>
        /\ VariantsOf(calls[c]) = << <<>>, <<"angle">> >>
        /\ Len(calls[c].tasks) = 4
        /\ calls[c].tasks[2].provider = "anthropic"
        /\ calls[c].tasks[3].prompt = calls[c].prompt

----------------------------------------------------------------------------
\* The sampling parameters sent to the provider

\* The default of `task.temperature || 0.7`, in tenths
DefaultTemperature == 7

\* The default of `task.maxTokens || 2000`
DefaultMaxTokens == 2000

\* temperature: task.temperature || 0.7, max_tokens: task.maxTokens || 2000 in
\* the request body: zero and undefined are both falsy
RequestParameters(task) ==
    [ temperature |-> IF task.temperature.some /\ task.temperature.val # 0
                      THEN task.temperature.val ELSE DefaultTemperature,
      maxTokens   |-> IF task.maxTokens.some /\ task.maxTokens.val # 0
                      THEN task.maxTokens.val ELSE DefaultMaxTokens ]

\* C25: every task of a batch carries the temperature and the token budget the
\* caller gave, and the request sent for it carries the caller's value when
\* there is one and the default (0.7, 2000) only when there is none.
C25_CallerParametersSent ==
    \A c \in CallIds :
        calls[c].op = "parallel-ai-think" =>
            \A i \in 1..Len(calls[c].tasks) :
                LET task == calls[c].tasks[i]
                    given == calls[c].options
                    sent == RequestParameters(task)
                IN  /\ task.temperature = given.temperature
                    /\ task.maxTokens = given.maxTokens
                    /\ sent.temperature = IF given.temperature.some
                                          THEN given.temperature.val
                                          ELSE DefaultTemperature
                    /\ sent.maxTokens = IF given.maxTokens.some
                                        THEN given.maxTokens.val
                                        ELSE DefaultMaxTokens

----------------------------------------------------------------------------
\* The clock specification: batches over both providers on one session
\* identifier, with Date.now() advancing between the steps up to MaxTime

MaxTime == 3

\* Date.now() is later at a later read: the clock only goes forward
Tick ==
    /\ now < MaxTime
    /\ now' = now + 1
    /\ UNCHANGED <<configs, sessions, heap, calls, reply>>

InitClock ==
    /\ configs = UsedProviders
    /\ sessions = <<>>
    /\ heap = <<>>
    /\ calls = [c \in CallIds |-> Idle]
    /\ reply = NoReply
    /\ now = 0

NextClock ==
    \/ \E c \in CallIds :
            /\ calls[c].op = "idle"
            /\ \E prompt \in Prompts :
                    ParallelAiThink(c, prompt, None, Some(JoinSessionId),
                                    JoinSessionId, DefaultOptions(None))
    \/ \E c \in CallIds, i \in 1..Cardinality(UsedProviders), outcome \in StoreOutcomes :
            BatchTaskSettles(c, i, outcome)
    \/ Tick

SpecClock == InitClock /\ [][NextClock]_vars

\* The durations of a batch result are consistent
DurationsConsistent(result) ==
    \A i \in 1..Len(result.responses) :
        /\ result.responses[i].duration >= 0
        /\ result.totalDuration >= result.responses[i].duration

\* C26: with the clock only going forward, every response, an answer or an
\* error text, has a duration of zero or more, while its batch is in flight
\* and after; and the totalDuration of every completed batch, as returned and
\* as stored, is at least the duration of each of its responses.
C26_TotalCoversEachMember ==
    /\ \A c \in CallIds :
           calls[c].op = "parallel-ai-think" =>
               \A i \in DOMAIN calls[c].results : calls[c].results[i].duration >= 0
    /\ (reply.op = "parallel-ai-think" /\ reply.status = "ok") =>
           DurationsConsistent(reply.result)
    /\ \A k \in DOMAIN sessions : DurationsConsistent(Stored(k))

\* A stored session whose first member, a failure, took longer than its
\* second, an answer, and whose total duration is that of the slower
C26_Witness ==
    \E k \in DOMAIN sessions :
        /\ Len(Stored(k).responses) = 2
        /\ IsErrorResponse(Stored(k).responses[1])
        /\ ~IsErrorResponse(Stored(k).responses[2])
        /\ Stored(k).responses[1].duration > Stored(k).responses[2].duration
        /\ Stored(k).responses[2].duration > 0
        /\ Stored(k).totalDuration = Stored(k).responses[1].duration

----------------------------------------------------------------------------
\* Concurrent dispatch (SpecJoin)

\* C27: the provider call of every member of a batch is in flight from the
\* moment the batch is suspended: a member that has not returned can return
\* in the next step, whichever of the other members have returned and
\* whichever have not.
C27_AllMembersInFlight ==
    \A c \in CallIds :
        calls[c].op = "parallel-ai-think" =>
            /\ DOMAIN calls[c].results \subseteq 1..Len(calls[c].tasks)
            /\ \A i \in (1..Len(calls[c].tasks)) \ DOMAIN calls[c].results :
                   ENABLED MemberReturns(c, i)

\* The second member of a batch has returned while the first is in flight
C27_Witness ==
    \E c \in CallIds :
        /\ Pending(c, 1)
        /\ 2 \in DOMAIN calls[c].results
        /\ calls[c].tasks[1].provider # calls[c].tasks[2].provider

----------------------------------------------------------------------------
\* The providers of the cost-tiered helpers (SpecTools)

SingleTaskHelperOps ==
    {"delegate-to-cheap-llm", "summarize-for-efficiency", "batch-process-cheap"}

HelperOps == SingleTaskHelperOps \cup {"draft-and-refine"}

\* The cheap providers that have a configuration
CheapConfigured == {"deepseek", "ollama"} \cap configs

\* The step is call c starting one of the three single-task helpers
SingleTaskHelperStarts(c) ==
    \/ \E task \in HelperTexts, provider \in CheapProviderInputs :
           DelegateToCheapLlm(c, task, provider, None)
    \/ \E text \in HelperTexts, summaryLength \in SummaryLengths,
          provider \in CheapProviderInputs :
           SummarizeForEfficiency(c, text, summaryLength, provider, None)
    \/ \E tasks \in SeqsUpTo(HelperTexts, 2), provider \in CheapProviderInputs :
           BatchProcessCheap(c, tasks, provider, DefaultMaxTokensPerTask)

\* The step is call c starting draft-and-refine
DraftAndRefineStarts(c) ==
    \E task \in HelperTexts, cheapProvider \in CheapProviderInputs,
       refineProvider \in PremiumProviderInputs :
        DraftAndRefine(c, task, cheapProvider, refineProvider)

\* C28: the one task of delegate-to-cheap-llm, of summarize-for-efficiency and
\* of batch-process-cheap, and the draft task of draft-and-refine, goes to
\* deepseek or ollama, and to one that is configured. A call of one of the four
\* made when neither is configured replies with an error and dispatches
\* nothing; a call of one of the first three made when one is configured
\* dispatches its task.
C28_HelpersUseConfiguredCheapProvider ==
    [][\A c \in CallIds :
        /\ calls'[c].op \in HelperOps =>
               calls'[c].tasks[1].provider \in CheapConfigured
        /\ calls'[c].op \in SingleTaskHelperOps => Len(calls'[c].tasks) = 1
        /\ (calls[c].op = "idle" /\ CheapConfigured = {}
                /\ (SingleTaskHelperStarts(c) \/ DraftAndRefineStarts(c))) =>
               /\ reply'.op \in HelperOps
               /\ reply'.status = "error"
               /\ calls' = calls
        /\ (calls[c].op = "idle" /\ CheapConfigured # {}
                /\ SingleTaskHelperStarts(c)) =>
               /\ reply' = NoReply
               /\ calls'[c].op \in SingleTaskHelperOps]_vars

\* batch-process-cheap is in flight to ollama, with a premium provider
\* configured and deepseek, the first cheap provider, not
C28_Witness ==
    \E c \in CallIds :
        /\ calls[c].op = "batch-process-cheap"
        /\ calls[c].tasks[1].provider = "ollama"
        /\ configs = {"anthropic", "ollama"}

----------------------------------------------------------------------------
\* The chain of draft-and-refine (SpecTools)

\* The premium providers that have a configuration
PremiumConfigured == {"openai", "anthropic", "gemini"} \cap configs

\* The tokens of `part` occur in `text` one after another
Contains(text, part) ==
    \E k \in 0..(Len(text) - Len(part)) :
        \A j \in 1..Len(part) : text[k + j] = part[j]

\* C29: a draft-and-refine call dispatches its draft task, to a configured
\* cheap provider, and nothing else; its refine task, to a configured premium
\* provider, is dispatched in the step in which the draft returns, and its
\* prompt has the text of the draft response in it; the call replies in the
\* step in which the refinement returns, so after exactly two executor calls.
\* A call made when no cheap or no premium provider is configured replies
\* with an error and dispatches nothing.
C29_DraftThenRefine ==
    [][\A c \in CallIds :
        /\ (calls[c].op = "idle" /\ calls'[c].op = "draft-and-refine") =>
               /\ Len(calls'[c].tasks) = 1
               /\ calls'[c].results = <<>>
               /\ calls'[c].tasks[1].provider \in CheapConfigured
               /\ PremiumConfigured # {}
        /\ (calls[c].op = "draft-and-refine" /\ Len(calls[c].tasks) = 1
                /\ calls' # calls) =>
               /\ calls'[c].op = "draft-and-refine"
               /\ Len(calls'[c].tasks) = 2
               /\ calls'[c].tasks[1] = calls[c].tasks[1]
               /\ calls'[c].tasks[2].provider \in PremiumConfigured
               /\ Len(calls'[c].results) = 1
               /\ calls'[c].results[1].taskId = calls[c].tasks[1].id
               /\ \E outcome \in ToolOutcomes :
                      calls'[c].results[1].response =
                          executeTask(calls[c].tasks[1], outcome, 0, 0).response
               /\ Contains(calls'[c].tasks[2].prompt, calls'[c].results[1].response)
               /\ reply' = NoReply
        /\ (calls[c].op = "draft-and-refine" /\ Len(calls[c].tasks) = 2
                /\ calls' # calls) =>
               /\ calls'[c].op = "idle"
               /\ reply'.op = "draft-and-refine" /\ reply'.status = "ok"
               /\ reply'.content.draft = calls[c].results[1].response
               /\ reply'.content.draftPhase.provider = calls[c].tasks[1].provider
               /\ reply'.content.refinePhase.provider = calls[c].tasks[2].provider
        /\ (calls[c].op = "idle" /\ (CheapConfigured = {} \/ PremiumConfigured = {})
                /\ DraftAndRefineStarts(c)) =>
               /\ reply'.op = "draft-and-refine"
               /\ reply'.status = "error"
               /\ calls' = calls]_vars

\* The refinement is in flight to anthropic, carrying the error text that the
\* draft, sent to deepseek, came to
C29_Witness ==
    \E c \in CallIds :
        /\ calls[c].op = "draft-and-refine"
        /\ Len(calls[c].tasks) = 2
        /\ calls[c].tasks[1].provider = "deepseek"
        /\ calls[c].tasks[2].provider = "anthropic"
        /\ IsErrorResponse(calls[c].results[1])
        /\ Contains(calls[c].tasks[2].prompt, calls[c].results[1].response)

----------------------------------------------------------------------------
\* The providers of a batch started by parallel-ai-think (SpecTools)

\* The providers of the tasks, task by task
TaskProviders(tasks) == [i \in 1..Len(tasks) |-> tasks[i].provider]

\* The entries of the list that have a configuration, in the list's order
ConfiguredOf(list) ==
    LET Configured(p) == p \in configs
    IN  SelectSeq(list, Configured)

\* C30: every task of a batch started by parallel-ai-think is for a configured
\* provider. A call that names providers of which at least one is configured
\* starts a batch with one task for each configured provider it named, in the
\* order named, and none for the others; the session stored when the batch
\* completes has those tasks and a response from each of those providers. No
\* parallel-ai-think call ends with the error executeTask throws for a
\* provider without a configuration.
C30_BatchRunsOnConfiguredProviders ==
    [][\A c \in CallIds :
        /\ calls'[c].op = "parallel-ai-think" =>
               \A i \in 1..Len(calls'[c].tasks) : calls'[c].tasks[i].provider \in configs
        /\ (reply'.op = "parallel-ai-think" /\ reply'.status = "error") =>
               ~ThrownByExecuteTask(reply'.message)
        /\ calls[c].op = "idle" =>
               \A prompt \in Prompts, providers \in ToolProviderInputs :
                   ( /\ providers.some
                     /\ ConfiguredOf(providers.val) # <<>>
                     /\ ParallelAiThink(c, prompt, providers, Some(ToolSessionId),
                                        ToolSessionId, DefaultOptions(None)) ) =>
                       /\ calls'[c].op = "parallel-ai-think"
                       /\ TaskProviders(calls'[c].tasks) = ConfiguredOf(providers.val)
        /\ (calls[c].op = "parallel-ai-think" /\ calls'[c].op = "idle") =>
               /\ reply'.op = "parallel-ai-think" /\ reply'.status = "ok"
               /\ StoredAfter(calls[c].sessionId).tasks = calls[c].tasks
               /\ TaskProviders(StoredAfter(calls[c].sessionId).responses) =
                      TaskProviders(calls[c].tasks)]_vars

\* With anthropic and ollama configured, a call that named deepseek and
\* anthropic has completed: the session has the one task, for anthropic
C30_Witness ==
    /\ configs = {"anthropic", "ollama"}
    /\ reply.op = "parallel-ai-think"
    /\ reply.status = "ok"
    /\ TaskProviders(Stored(reply.sessionId).tasks) = <<"anthropic">>
    /\ TaskProviders(Stored(reply.sessionId).responses) = <<"anthropic">>

----------------------------------------------------------------------------
\* A synthesis call overtaken by a batch for its identifier (SpecConc)

\* C31: in the step in which a summarize call returns its text, the session
\* the store holds under the call's identifier has that text as its summary,
\* and likewise a consensus call and the consensus - also when a batch for the
\* identifier has completed since the call started.
C31_ReturnedTextIsStored ==
    [][\A c \in ConcCallIds :
        /\ (calls[c].op = "summarize-thoughts" /\ calls'[c].op = "idle") =>
               /\ reply'.op = "summarize-thoughts" /\ reply'.status = "ok"
               /\ StoredAfter(calls[c].sessionId).summary = Some(reply'.returned)
        /\ (calls[c].op = "find-consensus" /\ calls'[c].op = "idle") =>
               /\ reply'.op = "find-consensus" /\ reply'.status = "ok"
               /\ StoredAfter(calls[c].sessionId).consensus = Some(reply'.returned)]_vars

----------------------------------------------------------------------------
\* The race specification: two parallel-ai-think calls in progress at once on
\* one session identifier, over one provider or two, with Date.now()
\* advancing up to MaxRaceTime so that the calls start at different times

MaxRaceTime == 1

RaceProviderInputs == {Some(<<"openai">>), Some(<<"anthropic", "openai">>)}

\* Date.now() is later at a later read
RaceTick ==
    /\ now < MaxRaceTime
    /\ now' = now + 1
    /\ UNCHANGED <<configs, sessions, heap, calls, reply>>

InitRace ==
    /\ configs = UsedProviders
    /\ sessions = <<>>
    /\ heap = <<>>
    /\ calls = [c \in ConcCallIds |-> Idle]
    /\ reply = NoReply
    /\ now = 0

NextRace ==
    \/ \E c \in ConcCallIds :
            /\ calls[c].op = "idle"
            /\ \E prompt \in Prompts, providers \in RaceProviderInputs :
                    ParallelAiThink(c, prompt, providers, Some(ConcSessionId),
                                    ConcSessionId, DefaultOptions(None))
    \/ \E c \in ConcCallIds, i \in 1..Cardinality(UsedProviders),
          outcome \in StoreOutcomes :
            BatchTaskSettles(c, i, outcome)
    \/ RaceTick

SpecRace == InitRace /\ [][NextRace]_vars

\* C32: with two batches for one identifier in progress at once, every stored
\* session has one response for each of its tasks, from that task's provider.
\* The store changes only in the step in which one of the calls completes, and
\* then the session under the identifier is that call's result whole: its
\* tasks, the responses its own members returned, each at its task's
\* position; the other call is as it was. So after both have completed the
\* store holds the result of the one that completed last, whichever was
\* started first.
C32_LastFinisherWinsWhole ==
    [][/\ \A k \in DOMAIN sessions' : FullyPopulated(StoredAfter(k))
       /\ (sessions' # sessions \/ StoreView' # StoreView) =>
              \E c \in ConcCallIds :
                  calls[c].op = "parallel-ai-think" /\ calls'[c].op = "idle"
       /\ \A c \in ConcCallIds :
              (calls[c].op = "parallel-ai-think" /\ calls'[c].op = "idle") =>
                  /\ reply'.op = "parallel-ai-think" /\ reply'.status = "ok"
                  /\ reply'.call = c
                  /\ StoredAfter(calls[c].sessionId) = reply'.result
                  /\ reply'.result.tasks = calls[c].tasks
                  /\ DOMAIN reply'.result.responses = 1..Len(calls[c].tasks)
                  /\ \A i \in DOMAIN calls[c].results :
                         reply'.result.responses[i] = calls[c].results[i]
                  /\ reply'.result.timestamp - reply'.result.totalDuration =
                         calls[c].startTime
                  /\ \A d \in ConcCallIds \ {c} : calls'[d] = calls[d]]_vars

\* The call started second has completed first: the store holds its session,
\* of one task, while the call started before it, of two tasks, one of them
\* returned, is still in flight
C32_Witness ==
    \E c, d \in ConcCallIds :
        /\ reply.op = "parallel-ai-think" /\ reply.status = "ok" /\ reply.call = c
        /\ Stored(ConcSessionId) = reply.result
        /\ Len(reply.result.tasks) = 1
        /\ reply.result.timestamp - reply.result.totalDuration = 1
        /\ calls[d].op = "parallel-ai-think"
        /\ calls[d].startTime = 0
        /\ Len(calls[d].tasks) = 2
        /\ DOMAIN calls[d].results = {2}

----------------------------------------------------------------------------
\* The manager specification: executeParallelThoughts called with any
\* providers list, configured or not, and any variants list, on one session
\* identifier, with any subset of the providers configured

ManagerProviderLists == SeqsUpTo(UsedProviders, 2)

ManagerVariantInputs == {None, Some(<<>>), Some(<< <<"angle">> >>)}

\* A call of executeParallelThoughts as the parallel-ai-think handler makes it
\* at line 500, with providers the caller of the method chose
ExecuteParallelThoughtsCall(c, sessionId, basePrompt, providers, options) ==
    /\ calls[c].op = "idle"
    /\ executeParallelThoughts(c, sessionId, basePrompt, providers, options)

InitManager ==
    /\ configs \in SUBSET UsedProviders
    /\ sessions = <<>>
    /\ heap = <<>>
    /\ calls = [c \in CallIds |-> Idle]
    /\ reply = NoReply
    /\ now = 0

NextManager ==
    \/ \E c \in CallIds, prompt \in Prompts, providers \in ManagerProviderLists,
          variants \in ManagerVariantInputs :
            ExecuteParallelThoughtsCall(c, JoinSessionId, prompt, providers,
                                        DefaultOptions(variants))
    \/ \E c \in CallIds, i \in 1..Cardinality(UsedProviders), outcome \in StoreOutcomes :
            BatchTaskSettles(c, i, outcome)

SpecManager == InitManager /\ [][NextManager]_vars

----------------------------------------------------------------------------
\* The synthesis specification: one session identifier, batches of one openai
\* task, and summarize and consensus calls on any synthesis provider, whose
\* task throws when the provider has no configuration and otherwise succeeds
\* or fails at the provider

SynthesisSessionId == "s1"

SynthesisConfigs == {{"openai"}, UsedProviders}

SynthesisOutcomes == {CallOk(<<"the synthesis">>, Some(Usage)), CallFails("fetch failed")}

InitSynthesis ==
    /\ configs \in SynthesisConfigs
    /\ sessions = <<>>
    /\ heap = <<>>
    /\ calls = [c \in CallIds |-> Idle]
    /\ reply = NoReply
    /\ now = 0

NextSynthesis ==
    \/ \E c \in CallIds, prompt \in Prompts :
            /\ calls[c].op = "idle"
            /\ ParallelAiThink(c, prompt, Some(<<"openai">>), Some(SynthesisSessionId),
                               SynthesisSessionId, DefaultOptions(None))
    \/ \E c \in CallIds, outcome \in StoreOutcomes : BatchTaskSettles(c, 1, outcome)
    \/ \E c \in CallIds, provider \in SynthesisProviderInputs :
            SummarizeThoughts(c, SynthesisSessionId, provider)
    \/ \E c \in CallIds, provider \in SynthesisProviderInputs :
            FindConsensus(c, SynthesisSessionId, provider)
    \/ \E c \in CallIds, outcome \in SynthesisOutcomes : SummarySettles(c, outcome)
    \/ \E c \in CallIds, outcome \in SynthesisOutcomes : ConsensusSettles(c, outcome)

SpecSynthesis == InitSynthesis /\ [][NextSynthesis]_vars

\* The text executeTask's catch puts in the response of a failed provider call
DegradedText(outcome) == <<"Error: ", outcome.message>>

\* C34: a summarize or consensus call on a stored session whose synthesis task
\* throws (its provider has no configuration) replies with an error and leaves
\* the store and the session as they were, summary and consensus included,
\* present or absent.  A synthesis task that fails at the provider degrades to
\* "Error: <message>", and that text is returned and written over the summary
\* (or consensus) field exactly as a successful text is, every other field of
\* the session staying as it was.
C34_ThrowLeavesSessionDegradeOverwrites ==
    [][\A c \in CallIds :
        /\ \A provider \in SynthesisProviderInputs :
            ( /\ SynthesisSessionId \in DOMAIN sessions
              /\ SynthesisProvider(provider) \notin configs
              /\ \/ SummarizeThoughts(c, SynthesisSessionId, provider)
                 \/ FindConsensus(c, SynthesisSessionId, provider) ) =>
                /\ reply'.status = "error"
                /\ calls' = calls
                /\ sessions' = sessions
                /\ heap' = heap
                /\ StoredAfter(SynthesisSessionId).summary
                       = Stored(SynthesisSessionId).summary
                /\ StoredAfter(SynthesisSessionId).consensus
                       = Stored(SynthesisSessionId).consensus
        /\ \A outcome \in SynthesisOutcomes :
            LET text == IF outcome.ok THEN outcome.content ELSE DegradedText(outcome)
            IN  /\ SummarySettles(c, outcome) =>
                    /\ reply'.status = "ok"
                    /\ reply'.returned = text
                    /\ sessions' = sessions
                    /\ StoredAfter(SynthesisSessionId)
                           = [Stored(SynthesisSessionId) EXCEPT !.summary = Some(text)]
                /\ ConsensusSettles(c, outcome) =>
                    /\ reply'.status = "ok"
                    /\ reply'.returned = text
                    /\ sessions' = sessions
                    /\ StoredAfter(SynthesisSessionId)
                           = [Stored(SynthesisSessionId) EXCEPT !.consensus = Some(text)]]_vars

\* A summarize call has thrown on a session whose summary is a degraded error
\* text and whose consensus is a degraded error text too; both are still there
C34_Witness ==
    /\ SynthesisSessionId \in DOMAIN sessions
    /\ reply.op = "summarize-thoughts"
    /\ reply.status = "error"
    /\ Stored(SynthesisSessionId).summary = Some(<<"Error: ", "fetch failed">>)
    /\ Stored(SynthesisSessionId).consensus = Some(<<"Error: ", "fetch failed">>)

====
